---------------------------- MODULE Spec2Model ----------------------------
(***************************************************************************)
(* A model of the AI query orchestration core of TrueNorth                 *)
(* (internal/services/ai): the intent classifier and model router, the     *)
(* semantic query cache, the usage limiter, the audit logger and the       *)
(* Service.Ask orchestrator that composes them.                            *)
(*                                                                         *)
(* Text is modelled as a sequence of one-character strings, so that        *)
(* strings.ToLower, strings.Contains, strings.Fields and the rune filter   *)
(* of normalizeQuery are computed character by character as the Go code    *)
(* computes them.                                                          *)
(***************************************************************************)
EXTENDS Integers, Sequences, FiniteSets, TLC

(***************************************************************************)
(* Bounds of the model.                                                    *)
(***************************************************************************)
\* the number of fragments a classifier input is concatenated from
MaxFrags == 2

(***************************************************************************)
(* Characters and the string helpers of package strings.                   *)
(***************************************************************************)
UpperChars == <<"A","B","C","D","E","F","G","H","I","J","K","L","M",
                "N","O","P","Q","R","S","T","U","V","W","X","Y","Z">>
LowerChars == <<"a","b","c","d","e","f","g","h","i","j","k","l","m",
                "n","o","p","q","r","s","t","u","v","w","x","y","z">>
Digits == {"0","1","2","3","4","5","6","7","8","9"}

\* unicode.ToLower on one rune (the model's alphabet is ASCII)
LowerChar(c) ==
  IF \E i \in 1..26 : UpperChars[i] = c
    THEN LowerChars[CHOOSE i \in 1..26 : UpperChars[i] = c]
    ELSE c

\* strings.ToLower
ToLower(s) == [i \in 1..Len(s) |-> LowerChar(s[i])]

\* strings.Contains
Contains(s, substr) ==
  \E i \in 0..(Len(s) - Len(substr)) :
    \A j \in 1..Len(substr) : s[i + j] = substr[j]

\* containsAny (cache.go:613): text contains one of the patterns
containsAny(text, patterns) ==
  \E k \in 1..Len(patterns) : Contains(text, patterns[k])

(***************************************************************************)
(* The keyword tables of ModelRouter.ClassifyIntent and the patterns of    *)
(* ModelRouter.isBlockedQuery, in source order.                            *)
(***************************************************************************)
\* the patterns of cache.go:480-484
TaxKeywords ==
  << <<"t","a","x">>,   \* tax
     <<"t","a","x","e","s">>,   \* taxes
     <<"t","a","x","-","l","o","s","s">>,   \* tax-loss
     <<"h","a","r","v","e","s","t">>,   \* harvest
     <<"w","a","s","h"," ","s","a","l","e">>,   \* wash sale
     <<"c","a","p","i","t","a","l"," ","g","a","i","n">>,   \* capital gain
     <<"c","a","p","i","t","a","l"," ","l","o","s","s">>,   \* capital loss
     <<"1","0","9","9">>,   \* 1099
     <<"c","o","s","t"," ","b","a","s","i","s">>,   \* cost basis
     <<"s","h","o","r","t","-","t","e","r","m">>,   \* short-term
     <<"l","o","n","g","-","t","e","r","m"," ","g","a","i","n">> >>   \* long-term gain

\* the patterns of cache.go:489-493
RiskKeywords ==
  << <<"r","i","s","k">>,   \* risk
     <<"v","o","l","a","t","i","l","i","t","y">>,   \* volatility
     <<"d","r","a","w","d","o","w","n">>,   \* drawdown
     <<"b","e","t","a">>,   \* beta
     <<"s","h","a","r","p","e">>,   \* sharpe
     <<"s","o","r","t","i","n","o">>,   \* sortino
     <<"v","a","r">>,   \* var
     <<"v","a","l","u","e"," ","a","t"," ","r","i","s","k">>,   \* value at risk
     <<"e","x","p","o","s","u","r","e">>,   \* exposure
     <<"c","o","n","c","e","n","t","r","a","t","e","d">>,   \* concentrated
     <<"d","i","v","e","r","s","i","f">> >>   \* diversif

\* the patterns of cache.go:498-502
ProjectionKeywords ==
  << <<"p","r","o","j","e","c","t">>,   \* project
     <<"f","o","r","e","c","a","s","t">>,   \* forecast
     <<"p","r","e","d","i","c","t">>,   \* predict
     <<"f","u","t","u","r","e">>,   \* future
     <<"s","c","e","n","a","r","i","o">>,   \* scenario
     <<"w","h","a","t"," ","i","f">>,   \* what if
     <<"m","o","n","t","e"," ","c","a","r","l","o">>,   \* monte carlo
     <<"r","e","t","i","r","e","m","e","n","t">>,   \* retirement
     <<"g","o","a","l">>,   \* goal
     <<"w","i","l","l"," ","i"," ","h","a","v","e">>,   \* will i have
     <<"c","a","n"," ","i"," ","a","f","f","o","r","d">> >>   \* can i afford

\* the patterns of cache.go:507-511
ResearchKeywords ==
  << <<"r","e","s","e","a","r","c","h">>,   \* research
     <<"a","n","a","l","y","z","e">>,   \* analyze
     <<"d","e","e","p"," ","d","i","v","e">>,   \* deep dive
     <<"e","x","p","l","a","i","n"," ","w","h","y">>,   \* explain why
     <<"c","o","m","p","a","r","e"," ","t","o"," ","m","a","r","k","e","t">>,   \* compare to market
     <<"v","e","r","s","u","s"," ","b","e","n","c","h","m","a","r","k">>,   \* versus benchmark
     <<"h","i","s","t","o","r","i","c","a","l">>,   \* historical
     <<"t","r","e","n","d">>,   \* trend
     <<"p","a","t","t","e","r","n">> >>   \* pattern

\* the patterns of cache.go:516-519
ComparisonKeywords ==
  << <<"c","o","m","p","a","r","e">>,   \* compare
     <<"v","e","r","s","u","s">>,   \* versus
     <<"v","s">>,   \* vs
     <<"b","e","t","t","e","r"," ","t","h","a","n">>,   \* better than
     <<"d","i","f","f","e","r","e","n","c","e"," ","b","e","t","w","e","e","n">>,   \* difference between
     <<"w","h","i","c","h"," ","i","s">>,   \* which is
     <<"s","h","o","u","l","d"," ","i"," ","c","h","o","o","s","e">> >>   \* should i choose

\* the patterns of cache.go:524-528
AnalyticalKeywords ==
  << <<"p","o","r","t","f","o","l","i","o">>,   \* portfolio
     <<"a","l","l","o","c","a","t","i","o","n">>,   \* allocation
     <<"h","o","l","d","i","n","g","s">>,   \* holdings
     <<"p","o","s","i","t","i","o","n">>,   \* position
     <<"p","e","r","f","o","r","m","a","n","c","e">>,   \* performance
     <<"r","e","t","u","r","n">>,   \* return
     <<"m","y">>,   \* my
     <<"h","o","w"," ","a","m"," ","i">>,   \* how am i
     <<"r","e","b","a","l","a","n","c","e">>,   \* rebalance
     <<"w","e","i","g","h","t">> >>   \* weight

\* the patterns of cache.go:533-536
SimpleKeywords ==
  << <<"w","h","a","t"," ","i","s">>,   \* what is
     <<"w","h","a","t"," ","a","r","e">>,   \* what are
     <<"d","e","f","i","n","e">>,   \* define
     <<"e","x","p","l","a","i","n">>,   \* explain
     <<"h","o","w"," ","d","o","e","s">>,   \* how does
     <<"t","e","l","l"," ","m","e"," ","a","b","o","u","t">>,   \* tell me about
     <<"m","e","a","n","i","n","g"," ","o","f">> >>   \* meaning of

\* the patterns of cache.go:546-563
blockedPatterns ==
  << <<"s","h","o","u","l","d"," ","i"," ","b","u","y">>,   \* should i buy
     <<"s","h","o","u","l","d"," ","i"," ","s","e","l","l">>,   \* should i sell
     <<"b","u","y"," ","o","r"," ","s","e","l","l">>,   \* buy or sell
     <<"i","s"," ","i","t"," ","a"," ","g","o","o","d"," ","t","i","m","e"," ","t","o">>,   \* is it a good time to
     <<"w","h","e","n"," ","s","h","o","u","l","d"," ","i">>,   \* when should i
     <<"r","e","c","o","m","m","e","n","d"," ","m","e">>,   \* recommend me
     <<"w","h","a","t"," ","s","h","o","u","l","d"," ","i"," ","i","n","v","e","s","t"," ","i","n">>,   \* what should i invest in
     <<"p","i","c","k"," ","s","t","o","c","k","s"," ","f","o","r"," ","m","e">>,   \* pick stocks for me
     <<"b","e","s","t"," ","s","t","o","c","k","s"," ","t","o"," ","b","u","y">>,   \* best stocks to buy
     <<"g","u","a","r","a","n","t","e","e","d">>,   \* guaranteed
     <<"r","i","s","k","-","f","r","e","e"," ","r","e","t","u","r","n">>,   \* risk-free return
     <<"c","a","n","'","t"," ","l","o","s","e">>,   \* can't lose
     <<"w","i","l","l"," ","d","e","f","i","n","i","t","e","l","y">>,   \* will definitely
     <<"1","0","0","%"," ","c","e","r","t","a","i","n">>,   \* 100% certain
     <<"w","h","e","n"," ","w","i","l","l"," ","t","h","e"," ","m","a","r","k","e","t">>,   \* when will the market
     <<"w","i","l","l"," ","t","h","e"," ","s","t","o","c","k"," ","g","o"," ","u","p">>,   \* will the stock go up
     <<"p","r","i","c","e"," ","t","a","r","g","e","t">>,   \* price target
     <<"w","h","e","r","e"," ","w","i","l","l">>,   \* where will
     <<"i","n","s","i","d","e","r">>,   \* insider
     <<"n","o","n","-","p","u","b","l","i","c">>,   \* non-public
     <<"c","o","n","f","i","d","e","n","t","i","a","l"," ","i","n","f","o","r","m","a","t","i","o","n">> >>   \* confidential information


(***************************************************************************)
(* ModelRouter.ClassifyIntent and isBlockedQuery.                          *)
(***************************************************************************)
IntentSimple      == "simple"
IntentAnalytical  == "analytical"
IntentTax         == "tax"
IntentResearch    == "research"
IntentComparison  == "comparison"
IntentProjection  == "projection"
IntentRisk        == "risk"
IntentCompliance  == "compliance"
IntentUnsupported == "unsupported"

\* isBlockedQuery: the (already lower-cased) query contains a blocked pattern
isBlockedQuery(query) == containsAny(query, blockedPatterns)

\* the keyword chain with the Risk group tested before the Tax group
ClassifyKeywords_RiskFirst(query) ==
  IF containsAny(query, RiskKeywords) THEN IntentRisk
  ELSE IF containsAny(query, TaxKeywords) THEN IntentTax
  ELSE IF containsAny(query, ProjectionKeywords) THEN IntentProjection
  ELSE IF containsAny(query, ResearchKeywords) THEN IntentResearch
  ELSE IF containsAny(query, ComparisonKeywords) THEN IntentComparison
  ELSE IF containsAny(query, AnalyticalKeywords) THEN IntentAnalytical
  ELSE IF containsAny(query, SimpleKeywords) THEN IntentSimple
  ELSE IntentAnalytical

\* the keyword chain of ClassifyIntent, applied to the lower-cased query
ClassifyKeywords(query) ==
  IF containsAny(query, TaxKeywords) THEN IntentTax
  ELSE IF containsAny(query, RiskKeywords) THEN IntentRisk
  ELSE IF containsAny(query, ProjectionKeywords) THEN IntentProjection
  ELSE IF containsAny(query, ResearchKeywords) THEN IntentResearch
  ELSE IF containsAny(query, ComparisonKeywords) THEN IntentComparison
  ELSE IF containsAny(query, AnalyticalKeywords) THEN IntentAnalytical
  ELSE IF containsAny(query, SimpleKeywords) THEN IntentSimple
  ELSE IntentAnalytical

\* ClassifyIntent without the strings.ToLower of its first line
ClassifyIntent_NoLower(q) ==
  IF isBlockedQuery(q) THEN IntentUnsupported
  ELSE ClassifyKeywords(q)

\* ClassifyIntent: lower-case, blocklist first, then the keyword chain
ClassifyIntent(q) ==
  LET query == ToLower(q)
  IN  IF isBlockedQuery(query) THEN IntentUnsupported
      ELSE ClassifyKeywords(query)

(***************************************************************************)
(* QueryCache: the pure helpers (cache.go:143-257).                        *)
(***************************************************************************)
\* unicode.IsSpace on the model's alphabet
IsSpace(c) == c \in {" ", "\t", "\n"}

\* strings.Fields: the maximal runs of non-space characters, in order
RECURSIVE FieldsFrom(_, _, _)
FieldsFrom(s, i, cur) ==
  IF i > Len(s)
    THEN IF cur = <<>> THEN <<>> ELSE <<cur>>
    ELSE IF IsSpace(s[i])
      THEN IF cur = <<>> THEN FieldsFrom(s, i + 1, <<>>)
           ELSE <<cur>> \o FieldsFrom(s, i + 1, <<>>)
      ELSE FieldsFrom(s, i + 1, Append(cur, s[i]))

Fields(s) == FieldsFrom(s, 1, <<>>)

\* strings.Join(words, " ")
RECURSIVE JoinSpace(_)
JoinSpace(words) ==
  IF words = <<>> THEN <<>>
  ELSE IF Len(words) = 1 THEN words[1]
  ELSE words[1] \o <<" ">> \o JoinSpace(Tail(words))

\* the runes normalizeQuery keeps (cache.go:161-163)
KeptRune(r) ==
  \/ \E i \in 1..26 : LowerChars[i] = r
  \/ r \in Digits
  \/ r \in {" ", "$", "%"}

\* normalizeQuery: lower-case, join the fields by one space, then drop every
\* rune that is not kept (in this order, as in the source)
normalizeQuery(query) ==
  LET q1 == ToLower(query)
      q2 == JoinSpace(Fields(q1))
  IN  SelectSeq(q2, KeptRune)

\* hashQuery with the portfolio left out of the hashed data
hashQuery_NoPortfolio(query, portfolioID) == normalizeQuery(query) \o <<"|">>

\* hashQuery: sha256 of normalized + "|" + portfolioID.  SHA-256 is modelled
\* as injective: the hash is the hashed data itself.
hashQuery(query, portfolioID) == normalizeQuery(query) \o <<"|">> \o portfolioID

\* the cutset of strings.Trim in extractKeywords (cache.go:197)
TrimCutset == {".", ",", "!", "?", ";", ":", "'", "\""}

\* strings.Trim(word, cutset)
RECURSIVE TrimLeft(_)
TrimLeft(w) ==
  IF w # <<>> /\ w[1] \in TrimCutset THEN TrimLeft(Tail(w)) ELSE w

RECURSIVE TrimRight(_)
TrimRight(w) ==
  IF w # <<>> /\ w[Len(w)] \in TrimCutset
    THEN TrimRight(SubSeq(w, 1, Len(w) - 1))
    ELSE w

Trim(w) == TrimRight(TrimLeft(w))

stopWords ==
  { <<"a">>, <<"a","n">>, <<"t","h","e">>, <<"i","s">>,
    <<"a","r","e">>, <<"w","a","s">>, <<"w","e","r","e">>, <<"b","e">>,
    <<"b","e","e","n">>, <<"b","e","i","n","g">>, <<"h","a","v","e">>, <<"h","a","s">>,
    <<"h","a","d">>, <<"d","o">>, <<"d","o","e","s">>, <<"d","i","d">>,
    <<"w","i","l","l">>, <<"w","o","u","l","d">>, <<"c","o","u","l","d">>, <<"s","h","o","u","l","d">>,
    <<"m","a","y">>, <<"m","i","g","h","t">>, <<"m","u","s","t">>, <<"s","h","a","l","l">>,
    <<"i">>, <<"m","e">>, <<"m","y">>, <<"w","e">>,
    <<"o","u","r">>, <<"y","o","u">>, <<"y","o","u","r">>, <<"i","t">>,
    <<"i","t","s">>, <<"t","h","i","s">>, <<"t","h","a","t">>, <<"t","h","e","s","e">>,
    <<"t","h","o","s","e">>, <<"w","h","a","t">>, <<"w","h","i","c","h">>, <<"w","h","o">>,
    <<"w","h","o","m">>, <<"h","o","w">>, <<"w","h","e","n">>, <<"w","h","e","r","e">>,
    <<"w","h","y">>, <<"a","n","d">>, <<"o","r">>, <<"b","u","t">>,
    <<"i","f">>, <<"t","h","e","n">>, <<"s","o">>, <<"a","s">>,
    <<"o","f">>, <<"a","t">>, <<"b","y">>, <<"f","o","r">>,
    <<"w","i","t","h">>, <<"a","b","o","u","t">>, <<"t","o">>, <<"f","r","o","m">>,
    <<"i","n">>, <<"o","n">>, <<"c","a","n">>, <<"t","e","l","l">>,
    <<"s","h","o","w">> }

\* extractKeywords: lower-case, split in fields, trim punctuation, drop the
\* words shorter than 2 and the stop words; a list, duplicates kept
RECURSIVE KeepKeywords(_)
KeepKeywords(words) ==
  IF words = <<>> THEN <<>>
  ELSE LET word == Trim(words[1])
       IN  IF Len(word) < 2 \/ word \in stopWords
             THEN KeepKeywords(Tail(words))
             ELSE <<word>> \o KeepKeywords(Tail(words))

extractKeywords(query) == KeepKeywords(Fields(ToLower(query)))

\* the elements of a list, as a set
Range(s) == { s[i] : i \in 1..Len(s) }

\* cfg.SemanticCacheThresh == 0.92, as ThresholdNum / ThresholdDen
ThresholdNum == 92
ThresholdDen == 100

\* the comparison on the keyword sets alone
SimilarityAtLeastThreshold_JaccardOnly(normalizedQuery, queryKeywords, entryQuery, entryKeywords) ==
  LET querySet == Range(queryKeywords)
      entrySet == Range(entryKeywords)
  IN  /\ queryKeywords # <<>> /\ entryKeywords # <<>>
      /\ Cardinality(querySet \cap entrySet) * ThresholdDen
           >= ThresholdNum * Cardinality(querySet \cup entrySet)

\* calculateSimilarity(...) >= c.threshold:
\*   0.7 * |Q n E| / |Q u E| + 0.3 * min(lq, le) / max(lq, le) >= 0.92,
\* computed in float64.  The float result is on the same side of 0.92 as the
\* exact value whenever the exact value differs from 0.92 (the two are then
\* at least 1/(100 * union * max) apart).  An exact value of 0.92 needs equal
\* keyword sets and lengths in the ratio 11:15, or 13 and more distinct
\* keywords; for equal keyword sets float64 gives 1*0.7 + (11/15)*0.3 =
\* 0.9199999999999999, below the threshold, and the texts of the model have
\* fewer than 13 keywords: the comparison is the strict one on exact values.
\* A query or entry without keywords scores 0.  With le = 0 the float ratio
\* is +Inf (inverted to 0) or NaN (every comparison false): the length term
\* adds nothing and 0.7 * jaccard stays below any threshold above 0.7.
SimilarityAtLeastThreshold(normalizedQuery, queryKeywords, entryQuery, entryKeywords) ==
  LET querySet == Range(queryKeywords)
      entrySet == Range(entryKeywords)
      intersection == Cardinality(querySet \cap entrySet)
      union == Cardinality(querySet \cup entrySet)
      lq == Len(normalizedQuery)
      le == Len(entryQuery)
      mn == IF lq < le THEN lq ELSE le
      mx == IF lq < le THEN le ELSE lq
  IN  IF queryKeywords = <<>> \/ entryKeywords = <<>> THEN FALSE
      ELSE IF le = 0
        THEN lq # 0 /\ 70 * intersection * ThresholdDen >= ThresholdNum * 100 * union
        ELSE (70 * intersection * mx + 30 * mn * union) * ThresholdDen
               > ThresholdNum * 100 * union * mx

(***************************************************************************)
(* Inputs of the pure-function specification: every concatenation of at    *)
(* most MaxFrags fragments.  The fragments carry blocklist phrases in      *)
(* mixed case, keywords of the groups, and filler; concatenation lets      *)
(* patterns form across fragment boundaries ("compare" + " to market").    *)
(***************************************************************************)
Fragments ==
  {  <<"S","h","o","u","l","d"," ","I"," ","b","u","y"," ">>,   \* 'Should I buy '
     <<"G","U","A","R","A","N","T","E","E","D">>,   \* 'GUARANTEED'
     <<"i","n","s","i","d","e","r">>,   \* 'insider'
     <<"t","a","x">>,   \* 'tax'
     <<"h","a","r","v","e","s","t">>,   \* 'harvest'
     <<"r","i","s","k">>,   \* 'risk'
     <<"V","a","R">>,   \* 'VaR'
     <<"f","u","t","u","r","e">>,   \* 'future'
     <<"r","e","s","e","a","r","c","h">>,   \* 'research'
     <<"c","o","m","p","a","r","e">>,   \* 'compare'
     <<" ","t","o"," ","m","a","r","k","e","t">>,   \* ' to market'
     <<"m","y"," ">>,   \* 'my '
     <<"w","h","a","t"," ","i","s"," ">>,   \* 'what is '
     <<"s","t","o","c","k">>,   \* 'stock'
     <<"?">>,   \* '?'
     <<" ">> }   \* ' '

RECURSIVE Concats(_)
Concats(n) ==
  IF n = 0 THEN { <<>> }
  ELSE LET shorter == Concats(n - 1)
       IN  shorter \cup { s \o f : s \in shorter, f \in Fragments }

ClassifierInputs == Concats(MaxFrags)

(***************************************************************************)
(* Configuration (Config / DefaultConfig, NewQueryCache), scaled.  Time is *)
(* counted in ticks; the cache TTL (cfg.CacheTTL), the capacity            *)
(* (maxEntries, 10000 in NewQueryCache) and the limiter's 24-hour window   *)
(* are scaled down so that expiry, eviction and rollover happen within the *)
(* explored runs.                                                          *)
(***************************************************************************)
\* c.ttl, in ticks
ttl == 2
\* c.maxEntries
maxEntries == 2
\* the last tick the clock reaches
MaxTime == 2
\* the number of cache operations of one run of the cache specification
MaxOps == 3

\* the last tick the clock reaches in runs of the service
MaxClock == 2
\* the limiter's window (24 * time.Hour in checkRateLimits), in ticks
ResetWindow == 1
\* cfg.DailyTokenBudget
DailyTokenBudget == 2
\* cfg.MaxRetries
MaxRetries == 1
\* the number of Ask calls of one run of the service
MaxAsks == 2

Users == {"u1", "u2"}
Procs == {1, 2}
PortfolioIDs == { <<"p","1">>, <<"p","2">> }

T_risk     == <<"W","h","a","t"," ","i","s"," ","m","y"," ","r","i","s","k"," ","e","x","p","o","s","u","r","e","?">>
T_riskNear == <<"i","s"," ","m","y"," ","r","i","s","k"," ","e","x","p","o","s","u","r","e","?">>
T_tax      == <<"H","o","w"," ","a","b","o","u","t"," ","m","y"," ","t","a","x","e","s","?">>
T_blocked  == <<"S","h","o","u","l","d"," ","I"," ","b","u","y"," ","V","O","O","?">>


\* three texts with the same keywords, of normalized lengths 11, 15 and 17
T_report    == <<"R","i","s","k"," ","r","e","p","o","r","t","?">>
T_theReport == <<"T","h","e"," ","r","i","s","k"," ","r","e","p","o","r","t","?">>
T_myReport  == <<"I","s"," ","m","y"," ","r","i","s","k"," ","r","e","p","o","r","t","?">>

QueryTexts == { T_risk, T_riskNear, T_tax, T_blocked, T_report, T_theReport, T_myReport }

(***************************************************************************)
(* The state.                                                              *)
(***************************************************************************)
VARIABLES
  clsText,     \* the text handed to ClassifyIntent (pure-function specification)
  clsIntent,   \* its result, "none" before the call
  clsModel,    \* what SelectModel(clsIntent, clsText) returned, "none" before the call
  now,         \* the clock (time.Now), in ticks
  cache,       \* QueryCache.cache: hash -> CacheEntry
  heap,        \* the Response objects: reference -> Response struct
  arrays,      \* the backing arrays of Sources / Disclaimers slices: reference -> elements
  held,        \* the references the caller of the cache still holds, with their origin
  opCount,     \* the number of cache operations issued so far
  lastOp,      \* the last operation on the cache (history)
  cfg,         \* the Config switches: CacheEnabled, EnableAuditLog, EnableDisclaimers
  dailyTokens, \* Service.dailyTokens: user -> tokens (an absent key reads 0)
  lastReset,   \* Service.lastReset
  entries,     \* AuditLogger.entries
  ask,         \* the Ask call each goroutine is executing: its locals and position
  asks,        \* the number of Ask calls started so far
  freshAt,     \* history: per (text, portfolio), when Ask last stored a fresh answer
               \* that has not been invalidated or evicted since (-1: none)
  lastOK,      \* history: per (text, portfolio), when the last Ask that returned a
               \* Response started, with no invalidation or eviction since (-1: none)
  auditOp,     \* the last call on the AuditLogger, its arguments and what it returned
  readers,     \* the Get calls in progress on the cache, step by step, and what
               \* Stats last reported
  tax          \* the AnalyzeTaxOpportunities call: its portfolio, the month it
               \* runs in, and what it returned

clsVars   == <<clsText, clsIntent, clsModel>>
cacheVars == <<now, cache, heap, arrays, held, opCount, lastOp>>
svcVars   == <<cfg, dailyTokens, lastReset, entries, ask, asks, freshAt, lastOK>>
vars      == <<clsVars, cacheVars, svcVars, auditOp, readers, tax>>

(***************************************************************************)
(* Objects.  A *Response is a reference into heap; its Sources and         *)
(* Disclaimers slices are references into arrays (0: a slice of length 0,  *)
(* which has no element to share).                                         *)
(***************************************************************************)
EmptyMap == [x \in {} |-> 0]

\* a record of the last cache operation.  op: the operation; q, pid: its
\* arguments; ref: the response passed or returned (0: none); key, srcPid:
\* the entry a Get was served from; from: the origin of a response written
\* to; setRef: for a Get that directly follows Set(q, pid, r), that r;
\* removed: the keys whose entries the operation deleted
NoOp ==
  [ op |-> "none", q |-> <<>>, pid |-> <<>>, ref |-> 0, key |-> <<>>,
    srcPid |-> <<>>, from |-> "", setRef |-> 0, removed |-> {} ]

\* the smallest reference not in use
MinFree(used) ==
  CHOOSE n \in 1..(Cardinality(used) + 1) :
    n \notin used /\ \A m \in 1..(n - 1) : m \in used

Elems(a, ref) == IF ref = 0 THEN <<>> ELSE a[ref]

\* make([]T, len(elems)) followed by copy: a new backing array
AllocArray(a, elems) ==
  IF elems = <<>> THEN [ref |-> 0, arrays |-> a]
  ELSE LET n == MinFree(DOMAIN a)
       IN  [ref |-> n, arrays |-> (n :> elems) @@ a]

\* cloneResponse stopping after "clone := *r": the struct is copied, the
\* slices still point at the original's backing arrays
cloneResponse_Shallow(h, a, r) ==
  IF r = 0 THEN [ref |-> 0, heap |-> h, arrays |-> a]
  ELSE LET n == MinFree(DOMAIN h)
       IN  [ref |-> n, heap |-> (n :> h[r]) @@ h, arrays |-> a]

\* cloneResponse (cache.go:260): a copy of the struct whose Sources and
\* Disclaimers are new slices holding copies of the elements.  Returns the
\* new reference with the extended heap and arrays.
cloneResponse(h, a, r) ==
  IF r = 0 THEN [ref |-> 0, heap |-> h, arrays |-> a]
  ELSE LET s == AllocArray(a, Elems(a, h[r].Sources))
           d == AllocArray(s.arrays, Elems(a, h[r].Disclaimers))
           n == MinFree(DOMAIN h)
           clone == [h[r] EXCEPT !.Sources = s.ref, !.Disclaimers = d.ref]
       IN  [ref |-> n, heap |-> (n :> clone) @@ h, arrays |-> d.arrays]

\* what a response says: the struct with its slices read out
Content(h, a, r) ==
  [h[r] EXCEPT !.Sources = Elems(a, h[r].Sources),
               !.Disclaimers = Elems(a, h[r].Disclaimers)]

\* garbage collection: only the objects some reference still reaches are
\* kept (Go frees the rest; nothing can observe them)
RespRootsNext ==
  { cache'[k].Response : k \in DOMAIN cache' }
    \cup { x.ref : x \in held' }
    \cup { ask'[p].resp : p \in Procs }

KeepResp(h) == [r \in (DOMAIN h) \cap RespRootsNext |-> h[r]]

ArrRootsNext ==
  UNION { {heap'[r].Sources, heap'[r].Disclaimers} : r \in DOMAIN heap' }
    \cup { entries'[i].Disclaimers : i \in 1..Len(entries') }

KeepArr(a) == [r \in (DOMAIN a) \cap ArrRootsNext |-> a[r]]

(***************************************************************************)
(* QueryCache: Get, Set, Invalidate, cleanup on the cache table.           *)
(***************************************************************************)
\* the helpers' values on the texts and portfolios of the model, tabulated
HashOf     == [q \in QueryTexts, p \in PortfolioIDs |-> hashQuery(q, p)]
NormOf     == [q \in QueryTexts |-> normalizeQuery(q)]
KeywordsOf == [q \in QueryTexts |-> extractKeywords(q)]

\* time.Since(entry.CreatedAt) < c.ttl
Unexpired_Early(entry) == now - entry.CreatedAt < ttl - 1

Unexpired_Inclusive(entry) == now - entry.CreatedAt <= ttl

Unexpired(entry) == now - entry.CreatedAt < ttl

\* the entries Get(query, portfolioID) may serve: the exact match when it is
\* there and unexpired; otherwise any unexpired entry of the portfolio whose
\* similarity reaches the threshold (the first one met in Go's unordered
\* map iteration, so any of them)
GetHits(c, query, portfolioID) ==
  LET hash == HashOf[query, portfolioID]
  IN  IF hash \in DOMAIN c /\ Unexpired(c[hash])
        THEN {hash}
        ELSE { k \in DOMAIN c :
                 /\ c[k].PortfolioID = portfolioID
                 /\ Unexpired(c[k])
                 /\ SimilarityAtLeastThreshold(NormOf[query],
                      KeywordsOf[query], c[k].Query, c[k].Keywords) }

\* entry.HitCount++ on the served entry
CountHit(c, k) == [c EXCEPT ![k].HitCount = @ + 1]

\* evictOldest: evictCount is maxEntries/10, at least 1
evictCount == IF maxEntries \div 10 < 1 THEN 1 ELSE maxEntries \div 10

\* the sets of keys evictOldest may delete: the evictCount oldest by
\* CreatedAt (entries of equal age sort in map-iteration order: any of them)
EvictSets(c) ==
  LET n == IF evictCount < Cardinality(DOMAIN c) THEN evictCount
           ELSE Cardinality(DOMAIN c)
  IN  { E \in SUBSET (DOMAIN c) :
          /\ Cardinality(E) = n
          /\ \A e \in E, k \in (DOMAIN c) \ E : c[e].CreatedAt <= c[k].CreatedAt }

Without(c, keys) == [k \in (DOMAIN c) \ keys |-> c[k]]

AfterEvict_Never(c) == { c }

\* the tables Set may start inserting into: evictOldest runs when the table
\* is at capacity
AfterEvict(c) ==
  IF Cardinality(DOMAIN c) >= maxEntries
    THEN { Without(c, E) : E \in EvictSets(c) }
    ELSE { c }

\* the CacheEntry Set builds (cache.go:101-109)
NewEntry(query, portfolioID, response) ==
  [ Query       |-> NormOf[query],
    QueryHash   |-> HashOf[query, portfolioID],
    PortfolioID |-> portfolioID,
    Response    |-> response,
    Keywords    |-> KeywordsOf[query],
    CreatedAt   |-> now,
    HitCount    |-> 0 ]

\* c.cache[hash] = &CacheEntry{...} on table c
Insert(c, query, portfolioID, response) ==
  (HashOf[query, portfolioID] :> NewEntry(query, portfolioID, response)) @@ c

\* Invalidate: delete every entry of the portfolio
Invalidated_All(c, portfolioID) == EmptyMap

Invalidated(c, portfolioID) ==
  Without(c, { k \in DOMAIN c : c[k].PortfolioID = portfolioID })

\* cleanup that keeps the entries whose age is exactly the TTL
Swept_Late(c) == Without(c, { k \in DOMAIN c : now - c[k].CreatedAt > ttl })

\* cleanup: delete every entry with now.Sub(entry.CreatedAt) >= c.ttl
Swept(c) == Without(c, { k \in DOMAIN c : now - c[k].CreatedAt >= ttl })

(***************************************************************************)
(* ModelRouter.SelectModel and the Service helpers.                        *)
(***************************************************************************)
ModelHaiku  == "claude-3-haiku-20240307"
ModelSonnet == "claude-sonnet-4-20250514"
ModelOpus   == "claude-opus-4-20250514"

\* DefaultConfig: DefaultModel, ComplexModel, SimpleModel
DefaultModel == ModelSonnet
ComplexModel == ModelSonnet
SimpleModel  == ModelHaiku

\* IntentModelRouting (cache.go:442)
IntentModelRouting ==
  [ i \in { IntentSimple, IntentAnalytical, IntentTax, IntentResearch,
            IntentComparison, IntentProjection, IntentRisk, IntentCompliance,
            IntentUnsupported } |->
      IF i \in {IntentSimple, IntentComparison, IntentUnsupported}
        THEN ModelHaiku ELSE ModelSonnet ]

\* the length above which SelectModel calls a query complex
ComplexLength == 500

\* strings.Count(query, "?")
CountChar(query, c) == Cardinality({ i \in 1..Len(query) : query[i] = c })

\* SelectModel with a query of exactly the threshold length called complex
SelectModel_LengthInclusive(intent, query) ==
  LET isComplex == Len(query) >= ComplexLength \/ CountChar(query, "?") > 1
      model == IF intent \in DOMAIN IntentModelRouting
                 THEN IntentModelRouting[intent] ELSE DefaultModel
  IN  IF isComplex /\ model = ModelHaiku THEN ComplexModel ELSE model

\* SelectModel (cache.go:575)
SelectModel(intent, query) ==
  LET isComplex == Len(query) > ComplexLength \/ CountChar(query, "?") > 1
      model == IF intent \in DOMAIN IntentModelRouting
                 THEN IntentModelRouting[intent] ELSE DefaultModel
  IN  IF isComplex /\ model = ModelHaiku THEN ComplexModel ELSE model

\* getDisclaimers (service.go:380)
BaseDisclaimers ==
  << "This information is AI-generated and for educational purposes only.",
     "This does not constitute investment, tax, or legal advice.",
     "Past performance does not guarantee future results." >>

\* getDisclaimers without the additions that depend on the intent
getDisclaimers_BaseOnly(intent) == BaseDisclaimers

getDisclaimers(intent) ==
  CASE intent = IntentTax ->
         Append(BaseDisclaimers, "Consult a qualified tax professional for personalized tax advice.")
    [] intent = IntentRisk ->
         Append(BaseDisclaimers, "Risk assessments are based on historical data and may not reflect future conditions.")
    [] intent = IntentProjection ->
         Append(BaseDisclaimers, "Projections are hypothetical and based on assumptions that may not materialize.")
    [] OTHER -> BaseDisclaimers

\* the portfolio handed to Ask with each portfolio id: its holdings (the
\* second portfolio has none)
VOO == <<"V","O","O">>
BND == <<"B","N","D">>

Holdings(pid) ==
  IF pid = <<"p","1">>
    THEN << [Ticker |-> VOO, Name |-> "Vanguard S&P 500 ETF"],
            [Ticker |-> BND, Name |-> "Vanguard Total Bond Market ETF"],
            [Ticker |-> VOO, Name |-> "Vanguard S&P 500 ETF"] >>
    ELSE <<>>

\* the text the remote model answers with
ReplyText == <<"V","O","O"," ","i","s"," ","y","o","u","r"," ","l","a",
             "r","g","e","s","t"," ","h","o","l","d","i","n","g",".">>

\* extractSources (service.go:400): one Source per holding whose ticker the
\* response mentions, then deduplicated by Reference, first occurrence kept
RECURSIVE Mentioned(_, _)
Mentioned(response, holdings) ==
  IF holdings = <<>> THEN <<>>
  ELSE LET h == holdings[1]
           rest == Mentioned(response, Tail(holdings))
       IN  IF Contains(response, h.Ticker)
             THEN <<[Type |-> "holding", Reference |-> h.Ticker, Description |-> h.Name]>> \o rest
             ELSE rest

RECURSIVE Unique(_, _)
Unique(sources, seen) ==
  IF sources = <<>> THEN <<>>
  ELSE IF sources[1].Reference \in seen
    THEN Unique(Tail(sources), seen)
    ELSE <<sources[1]>> \o Unique(Tail(sources), seen \cup {sources[1].Reference})

extractSources(response, holdings) == Unique(Mentioned(response, holdings), {})

\* the first sentence of the fixed text of blockedResponse (service.go:358)
RefusalText ==
  <<"I"," ","c","a","n","'","t"," ","p","r","o","v","i","d",
  "e"," ","s","p","e","c","i","f","i","c"," ","i","n","v",
  "e","s","t","m","e","n","t"," ","r","e","c","o","m","m",
  "e","n","d","a","t","i","o","n","s",".">>

RefusalDisclaimers ==
  << "This response was generated because your query appeared to request specific investment advice, which we cannot provide." >>

\* the errors Ask returns, by their message
UpstreamError(inner) == <<"claude API error: ", inner>>
QuotaError_Wrapped == UpstreamError("transport error")

QuotaError == <<"daily token limit exceeded">>
NoError == <<>>

\* the checks of Ask, line by line
\* service.go:339
OverBudget_Strict(tokens) == tokens > DailyTokenBudget

OverBudget(tokens) == tokens >= DailyTokenBudget
\* service.go:334
WindowOver == now - lastReset > ResetWindow
\* service.go:111
IsBlockedIntent_Never(intent) == FALSE

IsBlockedIntent(intent) == intent = IntentUnsupported

(***************************************************************************)
(* Service.Ask, one goroutine per element of Procs.  A step is what the    *)
(* goroutine does while it holds one lock (s.mu, the cache's c.mu, the     *)
(* logger's al.mu) or one attempt of the HTTP call, together with the      *)
(* lock-free code around it.                                               *)
(***************************************************************************)
ServiceQueries == { T_risk, T_riskNear, T_blocked }

IntentOf == [q \in QueryTexts |-> ClassifyIntent(q)]
ModelOf  == [q \in QueryTexts |-> SelectModel(IntentOf[q], q)]
SourcesOf == [pid \in PortfolioIDs |-> extractSources(ReplyText, Holdings(pid))]

\* the token counts the remote model may report
Usages == { [Input |-> 1, Output |-> 1] }

\* callClaude with the total left at the input count
TokenUsage_TotalIsInput(in, out) == [Input |-> in, Output |-> out, Total |-> in]

\* TokenUsage as callClaude builds it (service.go:319)
TokenUsage(in, out) == [Input |-> in, Output |-> out, Total |-> in + out]
ZeroUsage == [Input |-> 0, Output |-> 0, Total |-> 0]

IdleAsk ==
  [ pc |-> "idle", user |-> "", text |-> <<>>, pid |-> <<>>, qid |-> 0,
    start |-> 0, intent |-> "", model |-> "", attempt |-> 0,
    usage |-> ZeroUsage, resp |-> 0, err |-> NoError, trace |-> <<>>,
    sawFresh |-> FALSE, sawOK |-> FALSE, last |-> "" ]

Keys == ServiceQueries \X PortfolioIDs

\* a nil *models.Portfolio
NilPortfolio == [nil |-> TRUE, Holdings |-> <<>>]

\* no AnalyzeTaxOpportunities call yet; returned holds the summary the call
\* returned (no element: a nil pointer)
NoTax == [portfolio |-> NilPortfolio, month |-> 1, called |-> FALSE, returned |-> <<>>]

\* no Get in progress: each goroutine's position in Get, the entry that
\* serves it and the HitCount it has read; served counts, per stored entry,
\* the Gets it has served (history); total_hits is what Stats returned when
\* it was the last call, -1 otherwise
NoReaders ==
  [ get |-> [p \in Procs |-> [pc |-> "idle", key |-> <<>>, loaded |-> 0]],
    served |-> EmptyMap, total_hits |-> -1 ]

\* no call on the AuditLogger yet; the fields a call does not use keep these values
NoStats ==
  [ total_queries |-> 0, cached_queries |-> 0, cache_hit_rate |-> <<0, 1>>,
    total_tokens |-> 0, by_intent |-> EmptyMap, by_model |-> EmptyMap ]

NoAuditOp ==
  [ op |-> "none", id |-> 0, userID |-> "", since |-> 0, until |-> 0, limit |-> 0,
    before |-> 0, results |-> <<>>, stats |-> NoStats, removed |-> 0 ]

\* the queries the callers send: UserID, Text, PortfolioID
Requests ==
  { [user |-> "u1", text |-> T_risk,     pid |-> <<"p","1">>],
    [user |-> "u2", text |-> T_risk,     pid |-> <<"p","1">>],
    [user |-> "u1", text |-> T_riskNear, pid |-> <<"p","1">>],
    [user |-> "u2", text |-> T_risk,     pid |-> <<"p","2">>],
    [user |-> "u1", text |-> T_blocked,  pid |-> <<"p","1">>] }

\* goroutines are interchangeable: a new Ask runs on the first free one
FirstFree(p) == \A o \in Procs : o < p => ask[o].pc \notin {"idle", "done"}

\* history: the last Ask that returned a Response, when it started, and how
\* many Asks had started when it returned
NoOK == [text |-> <<>>, pid |-> <<>>, at |-> -1, asked |-> 0]

InitService ==
  /\ clsText = <<>>
  /\ clsIntent = "none"
  /\ clsModel = "none"
  /\ auditOp = NoAuditOp
  /\ readers = NoReaders
  /\ tax = NoTax
  /\ now = 0
  /\ cache = EmptyMap
  /\ heap = EmptyMap
  /\ arrays = EmptyMap
  /\ held = {}
  /\ opCount = 0
  /\ lastOp = NoOp
  /\ cfg \in [CacheEnabled : BOOLEAN, EnableAuditLog : BOOLEAN, EnableDisclaimers : {TRUE}]
  /\ dailyTokens = [u \in Users |-> 0]
  /\ lastReset = 0
  /\ entries = <<>>
  /\ ask = [p \in Procs |-> IdleAsk]
  /\ asks = 0
  /\ freshAt = [k \in Keys |-> -1]
  /\ lastOK = NoOK

Init == InitService

\* the history of evictions and invalidations: the keys whose entry left the table
Forget(f, c0, c1) ==
  [k \in Keys |-> IF HashOf[k[1], k[2]] \in (DOMAIN c0) \ (DOMAIN c1) THEN -1 ELSE f[k]]

\* what the goroutine notes when it reaches the cache (history)
SawFresh(a) ==
  freshAt[<<a.text, a.pid>>] >= 0 /\ now - freshAt[<<a.text, a.pid>>] < ttl
SawOK(a) ==
  /\ lastOK.text = a.text /\ lastOK.pid = a.pid
  /\ lastOK.asked < a.qid
  /\ now - lastOK.at < ttl

\* the Ask of a returns a Response
Returned(a) == [text |-> a.text, pid |-> a.pid, at |-> a.start, asked |-> asks]

\* an entry of the key of the last Response left the table
ForgetOK(l, c0, c1) ==
  IF l.at >= 0 /\ l.text \in ServiceQueries
       /\ HashOf[l.text, l.pid] \in (DOMAIN c0) \ (DOMAIN c1)
    THEN NoOK ELSE l

\* Ask up to the return of checkRateLimits (service.go:94-105), called by a
\* goroutine that is free or whose last Ask has returned (the caller drops
\* that result): the query gets its id and timestamp; under s.mu the table is reset when the window
\* is over, then the user's total is compared with the budget
AskCheckRateLimits(p, u, t, pid) ==
  /\ ask[p].pc \in {"idle", "done"}
  /\ FirstFree(p)
  /\ asks < MaxAsks
  /\ asks' = asks + 1
  /\ LET tokens == IF WindowOver THEN [v \in Users |-> 0] ELSE dailyTokens
         a == [IdleAsk EXCEPT !.user = u, !.text = t, !.pid = pid,
                              !.qid = asks + 1, !.start = now,
                              !.trace = <<"limit">>]
     IN  /\ dailyTokens' = tokens
         /\ lastReset' = IF WindowOver THEN now ELSE lastReset
         /\ ask' = [ask EXCEPT ![p] =
                      IF OverBudget(tokens[u])
                        THEN [a EXCEPT !.pc = "done", !.err = QuotaError]
                        ELSE [a EXCEPT !.pc = "route"]]
  /\ UNCHANGED <<tax, readers, auditOp, clsVars, now, cache, held, opCount, lastOp, cfg, entries,
                 freshAt, lastOK>>
  /\ heap' = KeepResp(heap)
  /\ arrays' = KeepArr(arrays)

\* blockedResponse (service.go:354)
blockedResponse(qid, intent, start, srcRef, discRef) ==
  [ ID |-> qid, QueryID |-> qid, Text |-> RefusalText, Sources |-> srcRef,
    Disclaimers |-> discRef, Model |-> SimpleModel, Intent |-> intent,
    TokensUsed |-> ZeroUsage, Cached |-> FALSE,
    ProcessingMs |-> now - start, Timestamp |-> now ]

\* service.go:108-113: the query classifies as Unsupported and Ask returns
\* the blocked response
AskBlocked(p) ==
  /\ ask[p].pc = "route"
  /\ IsBlockedIntent(IntentOf[ask[p].text])
  /\ LET d == AllocArray(arrays, RefusalDisclaimers)
         r == MinFree(DOMAIN heap)
         h == (r :> blockedResponse(ask[p].qid, IntentOf[ask[p].text],
                                    ask[p].start, 0, d.ref)) @@ heap
     IN  /\ ask' = [ask EXCEPT ![p].pc = "done",
                               ![p].intent = IntentOf[ask[p].text],
                               ![p].resp = r,
                               ![p].sawFresh = SawFresh(ask[p]),
                               ![p].sawOK = SawOK(ask[p]),
                               ![p].trace = @ \o <<"classify">>]
         /\ lastOK' = Returned(ask[p])
         /\ UNCHANGED <<tax, readers, auditOp, clsVars, now, cache, held, opCount, lastOp, cfg,
                        dailyTokens, lastReset, entries, asks, freshAt>>
         /\ heap' = KeepResp(h)
         /\ arrays' = KeepArr(d.arrays)

\* service.go:116-122: the cache serves the query; Ask marks the clone as
\* cached, gives it the query's id and returns it
AskCacheHit(p) ==
  /\ ask[p].pc = "route"
  /\ ~IsBlockedIntent(IntentOf[ask[p].text])
  /\ cfg.CacheEnabled
  /\ \E k \in GetHits(cache, ask[p].text, ask[p].pid) :
       LET cl == cloneResponse(heap, arrays, cache[k].Response)
           h == [cl.heap EXCEPT ![cl.ref].Cached = TRUE,
                                ![cl.ref].QueryID = ask[p].qid,
                                ![cl.ref].ProcessingMs = now - ask[p].start]
       IN  /\ cache' = CountHit(cache, k)
           /\ ask' = [ask EXCEPT ![p].pc = "done",
                                 ![p].intent = IntentOf[ask[p].text],
                                 ![p].resp = cl.ref,
                                 ![p].sawFresh = SawFresh(ask[p]),
                                 ![p].sawOK = SawOK(ask[p]),
                                 ![p].trace = @ \o <<"classify", "cacheGet">>]
           /\ lastOK' = Returned(ask[p])
           /\ UNCHANGED <<tax, readers, auditOp, clsVars, now, held, opCount, lastOp, cfg,
                          dailyTokens, lastReset, entries, asks, freshAt>>
           /\ heap' = KeepResp(h)
           /\ arrays' = KeepArr(cl.arrays)

\* service.go:116-130: the cache is off or has nothing for the query; the
\* model is selected and the prompts are built
AskCacheMiss(p) ==
  /\ ask[p].pc = "route"
  /\ ~IsBlockedIntent(IntentOf[ask[p].text])
  /\ cfg.CacheEnabled => GetHits(cache, ask[p].text, ask[p].pid) = {}
  /\ ask' = [ask EXCEPT ![p].pc = "call",
                        ![p].intent = IntentOf[ask[p].text],
                        ![p].model = ModelOf[ask[p].text],
                        ![p].sawFresh = SawFresh(ask[p]),
                        ![p].sawOK = SawOK(ask[p]),
                        ![p].trace = @ \o (IF cfg.CacheEnabled
                                             THEN <<"classify", "cacheGet">>
                                             ELSE <<"classify">>)]
  /\ UNCHANGED <<tax, readers, auditOp, clsVars, cacheVars, cfg, dailyTokens, lastReset, entries,
                 asks, freshAt, lastOK>>

\* one round of the retry loop of callClaude (service.go:275-283) and, when
\* the loop ends, the rest of callClaude.  outcome is what httpClient.Do and
\* the body give: "transport" (Do returns an error: connection failure,
\* timeout, cancelled context), "5xx", "4xx", "malformed" (status 200, body
\* unreadable, unparsable or without content), or a 200 with a usable body
\* (outcome "ok", token counts usage)
InnerError(outcome) ==
  CASE outcome = "transport" -> "transport error"
    [] outcome = "5xx" -> "API error 5xx"
    [] outcome = "4xx" -> "API error 4xx"
    [] outcome = "malformed" -> "empty response from API"

Outcomes == {"transport", "5xx", "4xx", "malformed", "ok"}

\* what follows round number attempt (from 0) with this outcome: one more
\* round, the return of an error, or the return of the text and the usage;
\* last (history) is the outcome of the round the goroutine last made
CallResult_RetryClientError(attempt, outcome) ==
  IF outcome # "ok"
    THEN IF attempt < MaxRetries THEN "retry" ELSE "error"
    ELSE "ok"

CallResult_OkWhenExhausted(attempt, outcome) ==
  IF outcome \in {"transport", "5xx"}
    THEN IF attempt < MaxRetries THEN "retry" ELSE "ok"
    ELSE IF outcome = "ok" THEN "ok" ELSE "error"

CallResult_ErrorIgnored(attempt, outcome) ==
  IF outcome \in {"transport", "5xx"} /\ attempt < MaxRetries THEN "retry" ELSE "ok"

CallResult(attempt, outcome) ==
  IF outcome \in {"transport", "5xx"}
    THEN IF attempt < MaxRetries THEN "retry" ELSE "error"
    ELSE IF outcome = "ok" THEN "ok" ELSE "error"

AskCallClaude(p, outcome, usage) ==
  /\ ask[p].pc = "call"
  /\ LET a == [ask[p] EXCEPT !.last = outcome, !.trace =
                 (IF ask[p].attempt = 0 THEN @ \o <<"remote">> ELSE @)
                   \o (IF outcome = "ok" THEN <<"remoteDone">> ELSE <<>>)]
         result == CallResult(a.attempt, outcome)
     IN  ask' = [ask EXCEPT ![p] =
           CASE result = "retry" -> [a EXCEPT !.attempt = @ + 1]
             [] result = "error" ->
                  [a EXCEPT !.pc = "done",
                            !.err = UpstreamError(InnerError(outcome))]
             [] result = "ok" ->
                  [a EXCEPT !.pc = "track",
                            !.usage = TokenUsage(usage.Input, usage.Output)]]
  /\ UNCHANGED <<tax, readers, auditOp, clsVars, cacheVars, cfg, dailyTokens, lastReset, entries,
                 asks, freshAt, lastOK>>

\* trackUsage (service.go:347), under s.mu
AskTrackUsage(p) ==
  /\ ask[p].pc = "track"
  /\ dailyTokens' = [dailyTokens EXCEPT ![ask[p].user] = @ + ask[p].usage.Total]
  /\ ask' = [ask EXCEPT ![p].pc = "store", ![p].trace = @ \o <<"usage">>]
  /\ UNCHANGED <<tax, readers, auditOp, clsVars, cacheVars, cfg, lastReset, entries, asks, freshAt, lastOK>>

\* the Response Ask builds (service.go:142-160)
FreshResponse(a, srcRef, discRef) ==
  [ ID |-> a.qid, QueryID |-> a.qid, Text |-> ReplyText, Sources |-> srcRef,
    Disclaimers |-> discRef, Model |-> a.model, Intent |-> a.intent,
    TokensUsed |-> a.usage, Cached |-> FALSE,
    ProcessingMs |-> now - a.start, Timestamp |-> now ]

\* service.go:141-165: the response is built and, with the cache on, stored
\* by cache.Set under c.mu
AskStore(p) ==
  /\ ask[p].pc = "store"
  /\ LET a == ask[p]
         s == AllocArray(arrays, SourcesOf[a.pid])
         d == AllocArray(s.arrays,
                IF cfg.EnableDisclaimers THEN getDisclaimers(a.intent) ELSE <<>>)
         r == MinFree(DOMAIN heap)
         h == (r :> FreshResponse(a, s.ref, d.ref)) @@ heap
     IN  /\ IF cfg.CacheEnabled
              THEN \E c \in AfterEvict(cache) :
                     /\ cache' = Insert(c, a.text, a.pid, r)
                     /\ freshAt' = [Forget(freshAt, cache, cache') EXCEPT
                                      ![<<a.text, a.pid>>] = now]
                     /\ lastOK' = ForgetOK(lastOK, cache, cache')
              ELSE UNCHANGED <<cache, freshAt, lastOK>>
         /\ ask' = [ask EXCEPT ![p].pc = "audit", ![p].resp = r,
                               ![p].trace = IF cfg.CacheEnabled
                                              THEN @ \o <<"cacheSet">> ELSE @]
         /\ UNCHANGED <<tax, readers, auditOp, clsVars, now, held, opCount, lastOp, cfg, dailyTokens,
                        lastReset, entries, asks>>
         /\ heap' = KeepResp(h)
         /\ arrays' = KeepArr(d.arrays)

\* the AuditEntry Log builds (audit.go:54-73); Sources is a new slice of the
\* references, Disclaimers is the response's own slice
AuditEntry(a, h, arr) ==
  LET response == h[a.resp]
      srcs == Elems(arr, response.Sources)
  IN  [ ID |-> response.ID, Timestamp |-> now, UserID |-> a.user,
        QueryID |-> a.qid, QueryText |-> a.text,
        QueryIntent |-> response.Intent, ResponseID |-> response.ID,
        ResponseModel |-> response.Model, TokensUsed |-> response.TokensUsed,
        Cached |-> response.Cached, ProcessingMs |-> response.ProcessingMs,
        Sources |-> [i \in 1..Len(srcs) |-> srcs[i].Reference],
        Disclaimers |-> response.Disclaimers ]

\* AuditLogger.Log (audit.go:48) on the log
Logged(log, a, h, arr) ==
  IF cfg.EnableAuditLog THEN Append(log, AuditEntry(a, h, arr)) ELSE log

\* service.go:167-170: auditor.Log(query, resp), then Ask returns resp
AskAudit(p) ==
  /\ ask[p].pc = "audit"
  /\ entries' = Logged(entries, ask[p], heap, arrays)
  /\ ask' = [ask EXCEPT ![p].pc = "done",
                        ![p].trace = IF cfg.EnableAuditLog
                                       THEN @ \o <<"audit">> ELSE @]
  /\ lastOK' = Returned(ask[p])
  /\ UNCHANGED <<tax, readers, auditOp, clsVars, cacheVars, cfg, dailyTokens, lastReset, asks, freshAt>>

\* Service.InvalidateCache(pid) (service.go:458)
InvalidateCache(pid) ==
  /\ cache' = Invalidated(cache, pid)
  /\ cache' # cache
  /\ freshAt' = Forget(freshAt, cache, cache')
  /\ lastOK' = ForgetOK(lastOK, cache, cache')
  /\ UNCHANGED <<tax, readers, auditOp, clsVars, now, held, opCount, lastOp, cfg, dailyTokens,
                 lastReset, entries, ask, asks>>
  /\ heap' = KeepResp(heap)
  /\ arrays' = KeepArr(arrays)

\* the background sweep of the cache (cache.go:308-328)
Cleanup ==
  /\ cache' = Swept(cache)
  /\ cache' # cache
  /\ UNCHANGED <<tax, readers, auditOp, clsVars, now, held, opCount, lastOp, svcVars>>
  /\ heap' = KeepResp(heap)
  /\ arrays' = KeepArr(arrays)

\* time passes
Tick ==
  /\ now < MaxClock
  /\ now' = now + 1
  /\ UNCHANGED <<tax, readers, auditOp, clsVars, cache, heap, arrays, held, opCount, lastOp, svcVars>>

Next ==
  \/ \E p \in Procs, r \in Requests : AskCheckRateLimits(p, r.user, r.text, r.pid)
  \/ \E p \in Procs : AskBlocked(p)
  \/ \E p \in Procs : AskCacheHit(p)
  \/ \E p \in Procs : AskCacheMiss(p)
  \/ \E p \in Procs, o \in Outcomes \ {"ok"} : AskCallClaude(p, o, [Input |-> 0, Output |-> 0])
  \/ \E p \in Procs, usage \in Usages : AskCallClaude(p, "ok", usage)
  \/ \E p \in Procs : AskTrackUsage(p)
  \/ \E p \in Procs : AskStore(p)
  \/ \E p \in Procs : AskAudit(p)
  \/ \E pid \in PortfolioIDs : InvalidateCache(pid)
  \/ Cleanup
  \/ Tick

Spec == Init /\ [][Next]_vars

(***************************************************************************)
(* One caller at a time: the Asks run one after another on one goroutine,  *)
(* which keeps running: httpClient.Do returns (the client has a Timeout),  *)
(* so every round of the retry loop ends.                                  *)
(***************************************************************************)
Caller == 1

CallRound(p) ==
  \E o \in Outcomes, usage \in Usages : AskCallClaude(p, o, usage)

NextSequential ==
  \/ \E r \in Requests : AskCheckRateLimits(Caller, r.user, r.text, r.pid)
  \/ AskBlocked(Caller)
  \/ AskCacheHit(Caller)
  \/ AskCacheMiss(Caller)
  \/ CallRound(Caller)
  \/ AskTrackUsage(Caller)
  \/ AskStore(Caller)
  \/ AskAudit(Caller)
  \/ \E pid \in PortfolioIDs : InvalidateCache(pid)
  \/ Cleanup
  \/ Tick

SpecSequential == Init /\ [][NextSequential]_vars /\ WF_vars(CallRound(Caller))

(***************************************************************************)
(* The cache on its own: a caller that issues Set, Get, Invalidate, lets   *)
(* the sweep run and time pass, and writes to the responses it holds.      *)
(***************************************************************************)
CacheQueries == { T_risk, T_riskNear }

\* the r of the Set(q, pid, r) that was the last operation, or 0
JustSet(q, pid) ==
  IF lastOp.op = "set" /\ lastOp.q = q /\ lastOp.pid = pid THEN lastOp.ref ELSE 0

\* a response as a caller of Set builds it
SomeSource == [Type |-> "holding", Reference |-> VOO, Description |-> "Vanguard S&P 500 ETF"]

BuiltResponse(id, srcRef, discRef) ==
  [ ID |-> id, QueryID |-> 0, Text |-> ReplyText, Sources |-> srcRef,
    Disclaimers |-> discRef, Model |-> ModelSonnet,
    Intent |-> IntentAnalytical,
    TokensUsed |-> TokenUsage(1, 1),
    Cached |-> FALSE, ProcessingMs |-> 0, Timestamp |-> 0 ]

IdleService ==
  /\ cfg = [CacheEnabled |-> TRUE, EnableAuditLog |-> TRUE, EnableDisclaimers |-> TRUE]
  /\ dailyTokens = [u \in Users |-> 0]
  /\ lastReset = 0
  /\ entries = <<>>
  /\ ask = [p \in Procs |-> IdleAsk]
  /\ asks = 0
  /\ freshAt = [k \in Keys |-> -1]
  /\ lastOK = NoOK

InitCache ==
  /\ clsText = <<>>
  /\ clsIntent = "none"
  /\ clsModel = "none"
  /\ auditOp = NoAuditOp
  /\ readers = NoReaders
  /\ tax = NoTax
  /\ now = 0
  /\ cache = EmptyMap
  /\ heap = EmptyMap
  /\ arrays = EmptyMap
  /\ held = {}
  /\ opCount = 0
  /\ lastOp = NoOp
  /\ IdleService

\* the caller builds a response and stores it: cache.Set(q, pid, r)
CSetNew(q, pid) ==
  /\ opCount < MaxOps
  /\ UNCHANGED <<now, clsVars, svcVars, auditOp, readers, tax>>
  /\ opCount' = opCount + 1
  /\ LET s == AllocArray(arrays, <<SomeSource>>)
         d == AllocArray(s.arrays, <<"disclaimer">>)
         r == MinFree(DOMAIN heap)
         h == (r :> BuiltResponse(opCount + 1, s.ref, d.ref)) @@ heap
     IN  /\ \E c \in AfterEvict(cache) : cache' = Insert(c, q, pid, r)
         /\ held' = {[ref |-> r, from |-> "set"]}
         /\ lastOp' = [NoOp EXCEPT !.op = "set", !.q = q, !.pid = pid, !.ref = r,
                                    !.removed = (DOMAIN cache) \ (DOMAIN cache')]
         /\ heap' = KeepResp(h)
         /\ arrays' = KeepArr(d.arrays)

\* the caller stores a response it already holds (one it built or one a Get
\* returned): cache.Set(q, pid, r); from then on the cache holds that object
CSetHeld(q, pid, x) ==
  /\ opCount < MaxOps
  /\ x \in held
  /\ UNCHANGED <<now, clsVars, svcVars, auditOp, readers, tax>>
  /\ opCount' = opCount + 1
  /\ \E c \in AfterEvict(cache) : cache' = Insert(c, q, pid, x.ref)
  /\ lastOp' = [NoOp EXCEPT !.op = "set", !.q = q, !.pid = pid, !.ref = x.ref,
                             !.removed = (DOMAIN cache) \ (DOMAIN cache')]
  /\ held' = {[ref |-> x.ref, from |-> "set"]}
  /\ heap' = KeepResp(heap)
  /\ arrays' = KeepArr(arrays)

\* cache.Get(q, pid) served by entry k: the caller receives a clone
CGetHit(q, pid) ==
  /\ opCount < MaxOps
  /\ UNCHANGED <<now, clsVars, svcVars, auditOp, readers, tax>>
  /\ opCount' = opCount + 1
  /\ \E k \in GetHits(cache, q, pid) :
       LET cl == cloneResponse(heap, arrays, cache[k].Response)
       IN  /\ cache' = CountHit(cache, k)
           /\ held' = {[ref |-> cl.ref, from |-> "get"]}
           /\ lastOp' = [NoOp EXCEPT !.op = "get", !.q = q, !.pid = pid,
                           !.ref = cl.ref, !.key = k,
                           !.srcPid = cache[k].PortfolioID,
                           !.setRef = JustSet(q, pid)]
           /\ heap' = KeepResp(cl.heap)
           /\ arrays' = KeepArr(cl.arrays)

\* cache.Get(q, pid) returning nil
CGetMiss(q, pid) ==
  /\ opCount < MaxOps
  /\ GetHits(cache, q, pid) = {}
  /\ lastOp' = [NoOp EXCEPT !.op = "get", !.q = q, !.pid = pid,
                             !.setRef = JustSet(q, pid)]
  /\ opCount' = opCount + 1
  /\ UNCHANGED <<now, cache, heap, arrays, held, clsVars, svcVars, auditOp, readers, tax>>

\* cache.Invalidate(pid)
CInvalidate(pid) ==
  /\ opCount < MaxOps
  /\ UNCHANGED <<now, clsVars, svcVars, auditOp, readers, tax>>
  /\ opCount' = opCount + 1
  /\ cache' = Invalidated(cache, pid)
  /\ lastOp' = [NoOp EXCEPT !.op = "invalidate", !.pid = pid,
                             !.removed = (DOMAIN cache) \ (DOMAIN cache')]
  /\ held' = held
  /\ heap' = KeepResp(heap)
  /\ arrays' = KeepArr(arrays)

\* one run of the background sweep: cleanupLoop's c.cleanup()
CCleanup ==
  /\ opCount < MaxOps
  /\ UNCHANGED <<now, clsVars, svcVars, auditOp, readers, tax>>
  /\ opCount' = opCount + 1
  /\ cache' = Swept(cache)
  /\ lastOp' = [NoOp EXCEPT !.op = "cleanup",
                             !.removed = (DOMAIN cache) \ (DOMAIN cache')]
  /\ held' = held
  /\ heap' = KeepResp(heap)
  /\ arrays' = KeepArr(arrays)

\* time passes
CTick ==
  /\ now < MaxTime
  /\ now' = now + 1
  /\ lastOp' = [NoOp EXCEPT !.op = "tick"]
  /\ UNCHANGED <<cache, heap, arrays, held, opCount, clsVars, svcVars, auditOp, readers, tax>>

\* the caller writes to a response it holds: a field of the struct, an
\* element of its Sources, or an element of its Disclaimers
Changed == <<"c","h","a","n","g","e","d">>

WriteTo(h, a, r, what) ==
  CASE what = "Text" -> [heap |-> [h EXCEPT ![r].Text = Changed], arrays |-> a]
    [] what = "Sources" ->
         [heap |-> h,
          arrays |-> IF h[r].Sources = 0 THEN a
                     ELSE [a EXCEPT ![h[r].Sources][1].Reference = Changed]]
    [] what = "Disclaimers" ->
         [heap |-> h,
          arrays |-> IF h[r].Disclaimers = 0 THEN a
                     ELSE [a EXCEPT ![h[r].Disclaimers][1] = "changed"]]

CMutate(x, what) ==
  /\ opCount < MaxOps
  /\ x \in held
  /\ LET w == WriteTo(heap, arrays, x.ref, what)
     IN  /\ heap' = w.heap
         /\ arrays' = w.arrays
  /\ lastOp' = [NoOp EXCEPT !.op = "mutate", !.ref = x.ref, !.from = x.from]
  /\ opCount' = opCount + 1
  /\ UNCHANGED <<now, cache, held, clsVars, svcVars, auditOp, readers, tax>>

NextCache ==
  \/ \E q \in CacheQueries, pid \in PortfolioIDs : CSetNew(q, pid)
  \/ \E q \in CacheQueries, pid \in PortfolioIDs, x \in held : CSetHeld(q, pid, x)
  \/ \E q \in CacheQueries, pid \in PortfolioIDs : CGetHit(q, pid)
  \/ \E q \in CacheQueries, pid \in PortfolioIDs : CGetMiss(q, pid)
  \/ \E pid \in PortfolioIDs : CInvalidate(pid)
  \/ CCleanup
  \/ CTick
  \/ \E x \in held, what \in {"Text", "Sources", "Disclaimers"} : CMutate(x, what)

SpecCache == InitCache /\ [][NextCache]_vars

(***************************************************************************)
(* One caller that keeps the Response its last Ask returned and writes to  *)
(* it: a field of the struct, an element of its Sources or of its          *)
(* Disclaimers.                                                            *)
(***************************************************************************)
CallerMutate(p, what) ==
  /\ ask[p].pc = "done"
  /\ ask[p].resp # 0
  /\ LET w == WriteTo(heap, arrays, ask[p].resp, what)
     IN  /\ heap' = w.heap
         /\ arrays' = w.arrays
         /\ w.heap # heap \/ w.arrays # arrays
  /\ UNCHANGED <<now, cache, held, opCount, lastOp, clsVars, svcVars, auditOp, readers, tax>>

NextCaller ==
  \/ NextSequential
  \/ \E what \in {"Text", "Sources", "Disclaimers"} : CallerMutate(Caller, what)

SpecCaller == Init /\ [][NextCaller]_vars

(***************************************************************************)
(* The cache with its background sweep: cleanupLoop runs c.cleanup() in a  *)
(* goroutine of its own, whatever the callers do and however many calls    *)
(* they have made; the ticker sees to it that it runs again and again.     *)
(***************************************************************************)
Sweep ==
  /\ cache' = Swept(cache)
  /\ lastOp' = [NoOp EXCEPT !.op = "cleanup",
                             !.removed = (DOMAIN cache) \ (DOMAIN cache')]
  /\ UNCHANGED <<now, opCount, clsVars, svcVars, auditOp, readers, tax>>
  /\ held' = held
  /\ heap' = KeepResp(heap)
  /\ arrays' = KeepArr(arrays)

NextSweep ==
  \/ \E q \in CacheQueries, pid \in PortfolioIDs : CSetNew(q, pid)
  \/ \E q \in CacheQueries, pid \in PortfolioIDs, x \in held : CSetHeld(q, pid, x)
  \/ \E q \in CacheQueries, pid \in PortfolioIDs : CGetHit(q, pid)
  \/ \E q \in CacheQueries, pid \in PortfolioIDs : CGetMiss(q, pid)
  \/ \E pid \in PortfolioIDs : CInvalidate(pid)
  \/ CTick
  \/ \E x \in held, what \in {"Text", "Sources", "Disclaimers"} : CMutate(x, what)
  \/ Sweep

SpecSweep == InitCache /\ [][NextSweep]_vars /\ WF_vars(Sweep)

(***************************************************************************)
(* The cache asked for texts that resemble the stored ones: the three      *)
(* texts have the same keywords and differ in length, so that their scores *)
(* lie above (15:17), at (11:15) and below (11:17) the threshold.          *)
(***************************************************************************)
SimilarQueries == { T_report, T_theReport, T_myReport }

NextSimilar ==
  \/ \E q \in SimilarQueries, pid \in PortfolioIDs : CSetNew(q, pid)
  \/ \E q \in SimilarQueries, pid \in PortfolioIDs : CGetHit(q, pid)
  \/ \E q \in SimilarQueries, pid \in PortfolioIDs : CGetMiss(q, pid)
  \/ CTick

SpecSimilar == InitCache /\ [][NextSimilar]_vars

(***************************************************************************)
(* The pure functions on their own.                                        *)
(***************************************************************************)
InitClassify ==
  /\ clsText \in ClassifierInputs
  /\ clsIntent = "none"
  /\ clsModel = "none"
  /\ auditOp = NoAuditOp
  /\ readers = NoReaders
  /\ tax = NoTax
  /\ now = 0
  /\ cache = EmptyMap
  /\ heap = EmptyMap
  /\ arrays = EmptyMap
  /\ held = {}
  /\ opCount = 0
  /\ lastOp = NoOp
  /\ IdleService

\* one call of router.ClassifyIntent(clsText)
Classify ==
  /\ clsIntent = "none"
  /\ clsIntent' = ClassifyIntent(clsText)
  /\ UNCHANGED <<clsText, clsModel, cacheVars, svcVars, auditOp, readers, tax>>

NextClassify == Classify

SpecClassify == InitClassify /\ [][NextClassify]_vars

(***************************************************************************)
(* Concurrent callers of the cache.  Get holds c.mu.RLock, which any       *)
(* number of goroutines hold at once, so the read and the write of         *)
(* entry.HitCount++ of one Get interleave with those of another; Set holds *)
(* c.mu.Lock and runs alone.                                               *)
(***************************************************************************)
ReaderPortfolio == <<"p", "1">>

AllIdle == \A p \in Procs : readers.get[p].pc = "idle"

\* the loop of Stats (cache.go:129-132)
RECURSIVE TotalHits(_)
TotalHits(c) ==
  IF DOMAIN c = {} THEN 0
  ELSE LET k == CHOOSE x \in DOMAIN c : TRUE
       IN  c[k].HitCount + TotalHits(Without(c, {k}))

\* the history of Gets served, for the entries the table holds after a Set
ServedAfterSet(c, hash) ==
  [k \in DOMAIN c |-> IF k = hash \/ k \notin DOMAIN readers.served
                        THEN 0 ELSE readers.served[k]]

InitReaders ==
  /\ clsText = <<>>
  /\ clsIntent = "none"
  /\ clsModel = "none"
  /\ auditOp = NoAuditOp
  /\ readers = NoReaders
  /\ tax = NoTax
  /\ now = 0
  /\ cache = EmptyMap
  /\ heap = EmptyMap
  /\ arrays = EmptyMap
  /\ held = {}
  /\ opCount = 0
  /\ lastOp = NoOp
  /\ IdleService

\* cache.Set(q, pid, r) under c.mu.Lock: no Get is in progress
RSet(q) ==
  /\ opCount < MaxOps
  /\ AllIdle
  /\ opCount' = opCount + 1
  /\ UNCHANGED <<now, clsVars, svcVars, auditOp, lastOp, tax>>
  /\ LET sr == AllocArray(arrays, <<SomeSource>>)
         d == AllocArray(sr.arrays, <<"disclaimer">>)
         r == MinFree(DOMAIN heap)
         h == (r :> BuiltResponse(opCount + 1, sr.ref, d.ref)) @@ heap
     IN  /\ \E c \in AfterEvict(cache) : cache' = Insert(c, q, ReaderPortfolio, r)
         /\ held' = {}
         /\ readers' = [readers EXCEPT
                          !.served = ServedAfterSet(cache', HashOf[q, ReaderPortfolio]),
                          !.total_hits = -1]
         /\ heap' = KeepResp(h)
         /\ arrays' = KeepArr(d.arrays)

\* Get takes c.mu.RLock and finds the entry that serves it (cache.go:55-62,
\* 69-80)
RGetFind(p, q) ==
  /\ opCount < MaxOps
  /\ readers.get[p].pc = "idle"
  /\ opCount' = opCount + 1
  /\ \E k \in GetHits(cache, q, ReaderPortfolio) :
       readers' = [readers EXCEPT !.get[p] = [pc |-> "load", key |-> k, loaded |-> 0],
                                  !.total_hits = -1]
  /\ UNCHANGED <<now, cache, heap, arrays, held, lastOp, clsVars, svcVars, auditOp, tax>>

\* Get finds no entry and returns nil
RGetMiss(p, q) ==
  /\ opCount < MaxOps
  /\ readers.get[p].pc = "idle"
  /\ GetHits(cache, q, ReaderPortfolio) = {}
  /\ opCount' = opCount + 1
  /\ readers' = [readers EXCEPT !.total_hits = -1]
  /\ UNCHANGED <<now, cache, heap, arrays, held, lastOp, clsVars, svcVars, auditOp, tax>>

\* entry.HitCount++, first half: the counter is read
RGetLoad(p) ==
  /\ readers.get[p].pc = "load"
  /\ readers' = [readers EXCEPT !.get[p].pc = "store",
                                !.get[p].loaded = cache[readers.get[p].key].HitCount]
  /\ UNCHANGED <<now, cache, heap, arrays, held, opCount, lastOp, clsVars, svcVars, auditOp, tax>>

\* entry.HitCount++, second half: the value read plus one is written; then
\* Get clones the response, releases the lock and returns the clone, which
\* the caller drops
RGetStore(p) ==
  /\ readers.get[p].pc = "store"
  /\ LET k == readers.get[p].key
     IN  /\ cache' = [cache EXCEPT ![k].HitCount = readers.get[p].loaded + 1]
         /\ readers' = [readers EXCEPT !.get[p] = NoReaders.get[p],
                                       !.served[k] = @ + 1,
                                       !.total_hits = -1]
  /\ UNCHANGED <<now, heap, arrays, held, opCount, lastOp, clsVars, svcVars, auditOp, tax>>

\* cache.Stats() with no Get in progress
RStats ==
  /\ AllIdle
  /\ readers.total_hits = -1
  /\ readers' = [readers EXCEPT !.total_hits = TotalHits(cache)]
  /\ UNCHANGED <<now, cache, heap, arrays, held, opCount, lastOp, clsVars, svcVars, auditOp, tax>>

NextReaders ==
  \/ \E q \in CacheQueries : RSet(q)
  \/ \E p \in Procs, q \in CacheQueries : RGetFind(p, q)
  \/ \E p \in Procs, q \in CacheQueries : RGetMiss(p, q)
  \/ \E p \in Procs : RGetLoad(p)
  \/ \E p \in Procs : RGetStore(p)
  \/ RStats

SpecReaders == InitReaders /\ [][NextReaders]_vars

(***************************************************************************)
(* normalizeQuery on its own: it is applied to a text, and again to what   *)
(* it returned.                                                            *)
(***************************************************************************)
\* the number of pieces a text is made of
MaxPieces == 3

\* a word in mixed case, an amount, white space, and punctuation that
\* normalizeQuery drops, next to a word and standing alone
Pieces ==
  { <<"R","i","s","k">>, <<"$","5","%">>, <<" ">>, <<"\t">>, <<"?">>,
    <<" ","?"," ">> }

RECURSIVE PieceTexts(_)
PieceTexts(n) ==
  IF n = 0 THEN { <<>> }
  ELSE LET shorter == PieceTexts(n - 1)
       IN  shorter \cup { t \o piece : t \in shorter, piece \in Pieces }

NormalizerInputs == PieceTexts(MaxPieces)

InitNormalize ==
  /\ clsText \in NormalizerInputs
  /\ clsIntent = "none"
  /\ clsModel = "none"
  /\ auditOp = NoAuditOp
  /\ readers = NoReaders
  /\ tax = NoTax
  /\ now = 0
  /\ cache = EmptyMap
  /\ heap = EmptyMap
  /\ arrays = EmptyMap
  /\ held = {}
  /\ opCount = 0
  /\ lastOp = NoOp
  /\ IdleService

\* clsText = c.normalizeQuery(clsText)
Normalize ==
  /\ clsText' = normalizeQuery(clsText)
  /\ UNCHANGED <<clsIntent, clsModel, cacheVars, svcVars, auditOp, readers, tax>>

NextNormalize == Normalize

SpecNormalize == InitNormalize /\ [][NextNormalize]_vars

(***************************************************************************)
(* SelectModel on its own: one call for an intent and a query.  The texts  *)
(* are ASCII, so that len(query) is the number of characters.              *)
(***************************************************************************)
\* a run of n letters
Letters(n) == [i \in 1..n |-> "a"]

\* queries around the length threshold, with no, one and two question marks
RouterQueries ==
  { Letters(n) \o marks :
      n \in {0, 11, ComplexLength - 2, ComplexLength - 1, ComplexLength, ComplexLength + 1},
      marks \in { <<>>, <<"?">>, <<"?", "?">> } }

\* the intents of cache.go:429 and a value that is none of them
RouterIntents == DOMAIN IntentModelRouting \cup { "other" }

InitRoute ==
  /\ clsText \in RouterQueries
  /\ clsIntent \in RouterIntents
  /\ clsModel = "none"
  /\ auditOp = NoAuditOp
  /\ readers = NoReaders
  /\ tax = NoTax
  /\ now = 0
  /\ cache = EmptyMap
  /\ heap = EmptyMap
  /\ arrays = EmptyMap
  /\ held = {}
  /\ opCount = 0
  /\ lastOp = NoOp
  /\ IdleService

\* one call of router.SelectModel(clsIntent, clsText)
Route ==
  /\ clsModel = "none"
  /\ clsModel' = SelectModel(clsIntent, clsText)
  /\ UNCHANGED <<clsText, clsIntent, cacheVars, svcVars, auditOp, readers, tax>>

NextRoute == Route

SpecRoute == InitRoute /\ [][NextRoute]_vars

(***************************************************************************)
(* The AuditLogger on its own: callers that log interactions, read the log *)
(* (GetEntries, GetStats, ExportForCompliance) and clear old entries,      *)
(* while the wall clock moves.  Timestamps are time.Now().UTC(): wall      *)
(* clock readings, which an adjustment of the clock can set back.          *)
(***************************************************************************)
\* the number of Log calls of one run
MaxLog == 3
\* the largest limit handed to GetEntries
MaxLimit == 2
\* the latest reading of the wall clock in runs of the logger
MaxStamp == 1

\* time.Time.After / time.Time.Before with the comparison off by one instant
TimeAfter_OrEqual(t, u) == t >= u
Clear_DropsEqual(log, before) ==
  [ entries |-> SelectSeq(log, LAMBDA entry : entry.Timestamp > before),
    removed |-> Cardinality({ i \in 1..Len(log) : log[i].Timestamp <= before }) ]

\* t.After(u), t.Before(u)
TimeAfter(t, u) == t > u
TimeBefore(t, u) == t < u

\* GetEntries (audit.go:86): walk from the newest entry down while fewer
\* than limit results were collected
RECURSIVE GetEntriesFrom(_, _, _, _, _, _)
GetEntriesFrom(log, userID, since, limit, i, results) ==
  IF i >= 1 /\ Len(results) < limit
  THEN LET entry == log[i]
       IN  GetEntriesFrom(log, userID, since, limit, i - 1,
             IF entry.UserID = userID /\ TimeAfter(entry.Timestamp, since)
             THEN Append(results, entry) ELSE results)
  ELSE results

GetEntries(log, userID, since, limit) ==
  GetEntriesFrom(log, userID, since, limit, Len(log), <<>>)

\* counts[key]++ on a Go map: an absent key reads 0
Incremented(counts, key) ==
  IF key \in DOMAIN counts THEN [counts EXCEPT ![key] = @ + 1]
  ELSE (key :> 1) @@ counts

\* the loop of GetStats (audit.go:112-123)
RECURSIVE GetStatsFrom(_, _, _, _)
GetStatsFrom(log, since, i, acc) ==
  IF i > Len(log) THEN acc
  ELSE LET entry == log[i]
       IN  IF TimeBefore(entry.Timestamp, since)
           THEN GetStatsFrom(log, since, i + 1, acc)
           ELSE GetStatsFrom(log, since, i + 1,
                  [acc EXCEPT !.total_queries = @ + 1,
                              !.cached_queries = IF entry.Cached THEN @ + 1 ELSE @,
                              !.total_tokens = @ + entry.TokensUsed.Total,
                              !.by_intent = Incremented(@, entry.QueryIntent),
                              !.by_model = Incremented(@, entry.ResponseModel)])

\* GetStats (audit.go:102); cache_hit_rate is cached/total*100, kept as the
\* pair <<numerator, denominator>>
GetStats(log, since) ==
  LET acc == GetStatsFrom(log, since, 1, NoStats)
  IN  [acc EXCEPT !.cache_hit_rate =
         IF acc.total_queries > 0
         THEN <<acc.cached_queries * 100, acc.total_queries>> ELSE <<0, 1>>]

\* ExportForCompliance (audit.go:142): the struct it hands to json.MarshalIndent
ExportForCompliance(log, userID, startDate, endDate) ==
  LET selected == SelectSeq(log, LAMBDA entry :
                    /\ entry.UserID = userID
                    /\ ~(TimeBefore(entry.Timestamp, startDate) \/ TimeAfter(entry.Timestamp, endDate)))
  IN  [ UserID |-> userID, StartDate |-> startDate, EndDate |-> endDate,
        EntryCount |-> Len(selected), ExportedAt |-> now, Entries |-> selected,
        Disclaimer |-> "This audit log contains AI-generated content for informational purposes only." ]

\* Clear (audit.go:180): the entries it keeps and the count it returns
Clear(log, before) ==
  [ entries |-> SelectSeq(log, LAMBDA entry : ~TimeBefore(entry.Timestamp, before)),
    removed |-> Cardinality({ i \in 1..Len(log) : TimeBefore(log[i].Timestamp, before) }) ]

\* the interactions the callers log: the user, and whether the response was
\* a fresh one, one served from the cache or the refusal
AuditCalls ==
  { [user |-> "u1", kind |-> "fresh"], [user |-> "u1", kind |-> "cached"],
    [user |-> "u2", kind |-> "blocked"] }

LoggedResponse(kind, id, srcRef, discRef) ==
  [ BuiltResponse(id, srcRef, discRef) EXCEPT
      !.QueryID = id,
      !.Cached = (kind = "cached"),
      !.Model = IF kind = "blocked" THEN SimpleModel ELSE ModelSonnet,
      !.Intent = IF kind = "blocked" THEN IntentUnsupported ELSE IntentAnalytical,
      !.TokensUsed = IF kind = "blocked" THEN ZeroUsage ELSE TokenUsage(1, 1) ]

\* the Disclaimers arrays the entries of the log refer to
ArraysOf(arr, log) ==
  [ r \in { log[i].Disclaimers : i \in 1..Len(log) } \cap DOMAIN arr |-> arr[r] ]

InitAudit ==
  /\ clsText = <<>>
  /\ clsIntent = "none"
  /\ clsModel = "none"
  /\ auditOp = NoAuditOp
  /\ readers = NoReaders
  /\ tax = NoTax
  /\ now = 0
  /\ cache = EmptyMap
  /\ heap = EmptyMap
  /\ arrays = EmptyMap
  /\ held = {}
  /\ opCount = 0
  /\ lastOp = NoOp
  /\ cfg \in [CacheEnabled : {TRUE}, EnableAuditLog : BOOLEAN, EnableDisclaimers : {TRUE}]
  /\ dailyTokens = [u \in Users |-> 0]
  /\ lastReset = 0
  /\ entries = <<>>
  /\ ask = [p \in Procs |-> IdleAsk]
  /\ asks = 0
  /\ freshAt = [k \in Keys |-> -1]
  /\ lastOK = NoOK

\* auditor.Log(query, response) for a new query
ALog(c) ==
  /\ asks < MaxLog
  /\ asks' = asks + 1
  /\ LET d == AllocArray(arrays, <<"disclaimer">>)
         s == IF c.kind = "blocked" THEN [ref |-> 0, arrays |-> d.arrays]
              ELSE AllocArray(d.arrays, <<SomeSource>>)
         h == 1 :> LoggedResponse(c.kind, asks + 1, s.ref, d.ref)
         a == [IdleAsk EXCEPT !.user = c.user, !.text = T_risk, !.qid = asks + 1,
                              !.resp = 1]
     IN  /\ entries' = Logged(entries, a, h, s.arrays)
         /\ arrays' = ArraysOf(d.arrays, entries')
  /\ auditOp' = [NoAuditOp EXCEPT !.op = "log", !.id = asks + 1, !.userID = c.user]
  /\ UNCHANGED <<tax, readers, clsVars, now, cache, heap, held, opCount, lastOp, cfg,
                 dailyTokens, lastReset, ask, freshAt, lastOK>>

AGetEntries(userID, since, limit) ==
  /\ auditOp' = [NoAuditOp EXCEPT !.op = "entries", !.userID = userID,
                                  !.since = since, !.limit = limit,
                                  !.results = GetEntries(entries, userID, since, limit)]
  /\ UNCHANGED <<tax, readers, clsVars, cacheVars, svcVars>>

AGetStats(since) ==
  /\ auditOp' = [NoAuditOp EXCEPT !.op = "stats", !.since = since,
                                  !.stats = GetStats(entries, since)]
  /\ UNCHANGED <<tax, readers, clsVars, cacheVars, svcVars>>

AExport(userID, startDate, endDate) ==
  /\ LET export == ExportForCompliance(entries, userID, startDate, endDate)
     IN  auditOp' = [NoAuditOp EXCEPT !.op = "export", !.userID = userID,
                                      !.since = startDate, !.until = endDate,
                                      !.results = export.Entries]
  /\ UNCHANGED <<tax, readers, clsVars, cacheVars, svcVars>>

AClear(before) ==
  /\ LET cleared == Clear(entries, before)
     IN  /\ entries' = cleared.entries
         /\ arrays' = ArraysOf(arrays, entries')
         /\ auditOp' = [NoAuditOp EXCEPT !.op = "clear", !.before = before,
                                         !.removed = cleared.removed]
  /\ UNCHANGED <<tax, readers, clsVars, now, cache, heap, held, opCount, lastOp, cfg,
                 dailyTokens, lastReset, ask, asks, freshAt, lastOK>>

\* the wall clock moves: forward as time passes, to another reading when it
\* is adjusted
ATick ==
  /\ \E t \in 0..MaxStamp : t # now /\ now' = t
  /\ UNCHANGED <<tax, readers, auditOp, clsVars, cache, heap, arrays, held, opCount, lastOp, svcVars>>

NextAudit ==
  \/ \E c \in AuditCalls : ALog(c)
  \/ \E u \in Users, since \in (-1)..(MaxStamp - 1), limit \in 0..MaxLimit :
       AGetEntries(u, since, limit)
  \/ \E since \in 0..MaxStamp : AGetStats(since)
  \/ \E u \in Users, startDate \in 0..MaxStamp, endDate \in 0..MaxStamp :
       startDate <= endDate /\ AExport(u, startDate, endDate)
  \/ \E before \in 1..(MaxStamp + 1) : AClear(before)
  \/ ATick

SpecAudit == InitAudit /\ [][NextAudit]_vars

(***************************************************************************)
(* The TaxOptimizer on its own: one AnalyzeTaxOpportunities call for a     *)
(* portfolio.  Amounts are whole dollars; what the code rounds to two      *)
(* places (percentages, savings) is kept in hundredths, what it prints     *)
(* with one place in tenths.                                               *)
(***************************************************************************)
\* NewTaxOptimizer: minLossThreshold (tax.go:27)
minLossThreshold == 100

\* the number of holdings of a portfolio
MaxHoldings == 3

\* the threshold of generateRecommendations (tax.go:236)
HarvestableNotice == 1000

\* holdings with a gain, no change, and losses below, at and above the
\* threshold; two lots of one ticker; two equal losses; every asset-class
\* branch of findAlternatives
TaxHoldings ==
  { [Ticker |-> "AAPL", Name |-> "Apple Inc.", MarketValue |-> 300, CostBasis |-> 100,
     AssetClass |-> "equity", Sector |-> "Technology", Geography |-> "US"],
    [Ticker |-> "NVDA", Name |-> "NVIDIA Corp.", MarketValue |-> 200, CostBasis |-> 300,
     AssetClass |-> "equity", Sector |-> "Technology", Geography |-> "US"],
    [Ticker |-> "TSLA", Name |-> "Tesla Inc.", MarketValue |-> 100, CostBasis |-> 300,
     AssetClass |-> "equity", Sector |-> "Automotive", Geography |-> "US"],
    [Ticker |-> "TSLA", Name |-> "Tesla Inc.", MarketValue |-> 201, CostBasis |-> 300,
     AssetClass |-> "equity", Sector |-> "Automotive", Geography |-> "US"],
    [Ticker |-> "BND", Name |-> "Total Bond Market", MarketValue |-> 800, CostBasis |-> 1000,
     AssetClass |-> "fixed_income", Sector |-> "", Geography |-> "US"],
    [Ticker |-> "VXUS", Name |-> "Total International", MarketValue |-> 800, CostBasis |-> 2000,
     AssetClass |-> "equity", Sector |-> "Technology", Geography |-> "International"],
    [Ticker |-> "BTC", Name |-> "Bitcoin", MarketValue |-> 50, CostBasis |-> 200,
     AssetClass |-> "crypto", Sector |-> "", Geography |-> ""],
    [Ticker |-> "CASH", Name |-> "Cash", MarketValue |-> 100, CostBasis |-> 100,
     AssetClass |-> "cash", Sector |-> "", Geography |-> ""] }

RECURSIVE HoldingLists(_)
HoldingLists(n) ==
  IF n = 0 THEN { <<>> }
  ELSE LET shorter == HoldingLists(n - 1)
       IN  shorter \cup { Append(l, h) : l \in shorter, h \in TaxHoldings }

\* a nil portfolio, an empty one, and portfolios of up to MaxHoldings holdings
TaxPortfolios ==
  { NilPortfolio } \cup { [nil |-> FALSE, Holdings |-> l] : l \in HoldingLists(MaxHoldings) }

\* time.Now().Month(): before and from October
TaxMonths == { 9, 10 }

\* Holding.GainLoss
GainLoss(h) == h.MarketValue - h.CostBasis

\* n / d rounded to the nearest whole number, halves away from zero (n >= 0, d > 0)
RoundDiv(n, d) == (2 * n + d) \div (2 * d)

\* loss.GreaterThanOrEqual(t.minLossThreshold)
Harvestable_Strict(loss) == loss > minLossThreshold

Harvestable(loss) == loss >= minLossThreshold

\* the texts are named by what they suggest
findAlternatives(holding) ==
  IF holding.AssetClass = "equity"
    THEN IF holding.Geography = "US"
           THEN << "different S&P 500 ETF", "total market ETF" >>
           ELSE << "equivalent international ETF" >>
    ELSE IF holding.AssetClass = "fixed_income"
           THEN << "bond ETF from different provider", "Treasury ETF" >>
           ELSE << "consult advisor" >>

hasRelatedHoldings(holding, holdings) ==
  \E i \in 1..Len(holdings) :
    /\ holdings[i].Ticker # holding.Ticker
    /\ holdings[i].AssetClass = holding.AssetClass
    /\ holdings[i].Sector = holding.Sector
    /\ holdings[i].Geography = holding.Geography

\* the sentences of the note; the first one prints the ticker and the
\* percentage with one place (lossPercent is in hundredths of a percent)
generateNotes(holding, lossPercent, washSaleRisk) ==
  << [kind |-> "down", Ticker |-> holding.Ticker, figure |-> RoundDiv(lossPercent, 10)] >>
  \o (IF lossPercent > 20 * 100
        THEN << [kind |-> "significant", Ticker |-> "", figure |-> 0] >> ELSE << >>)
  \o (IF washSaleRisk
        THEN << [kind |-> "caution", Ticker |-> "", figure |-> 0] >>
        ELSE << [kind |-> "replace", Ticker |-> "", figure |-> 0] >>)

createHarvestOpportunity(holding, loss, holdings) ==
  LET lossPercent == IF holding.CostBasis # 0
                       THEN RoundDiv(loss * 100 * 100, holding.CostBasis) ELSE 0
      alternatives == findAlternatives(holding)
      washSaleRisk == Len(alternatives) > 0 /\ hasRelatedHoldings(holding, holdings)
  IN  [ Ticker           |-> holding.Ticker,
        Name             |-> holding.Name,
        CurrentValue     |-> holding.MarketValue,
        CostBasis        |-> holding.CostBasis,
        UnrealizedLoss   |-> loss,
        LossPercent      |-> lossPercent,
        LotType          |-> "long_term",
        EstimatedSavings |-> 20 * loss,
        Alternatives     |-> alternatives,
        WashSaleRisk     |-> washSaleRisk,
        Notes            |-> generateNotes(holding, lossPercent, washSaleRisk) ]

TaxDisclaimers ==
  << "educational, not tax advice", "consult a tax professional",
     "implications vary", "wash sale rules may apply" >>

\* the summary AnalyzeTaxOpportunities starts from (tax.go:72-81)
NewSummary ==
  [ TotalUnrealizedGains |-> 0, TotalUnrealizedLosses |-> 0, NetUnrealized |-> 0,
    ShortTermGains |-> 0, ShortTermLosses |-> 0, LongTermGains |-> 0, LongTermLosses |-> 0,
    HarvestableAmount |-> 0, EstimatedTaxSavings |-> 0,
    Opportunities |-> << >>, Recommendations |-> << >>, Disclaimers |-> TaxDisclaimers ]

\* the summary after the loop of tax.go:88-109 has handled holdings[1..n]
RECURSIVE Analyzed(_, _)
Analyzed(holdings, n) ==
  IF n = 0 THEN NewSummary
  ELSE LET summary  == Analyzed(holdings, n - 1)
           holding  == holdings[n]
           gainLoss == GainLoss(holding)
           loss     == -gainLoss
           tracked  == [summary EXCEPT !.TotalUnrealizedLosses = @ + loss,
                                       !.LongTermLosses = @ + loss]
       IN  IF gainLoss > 0
             THEN [summary EXCEPT !.TotalUnrealizedGains = @ + gainLoss,
                                  !.LongTermGains = @ + gainLoss]
             ELSE IF gainLoss < 0
                    THEN IF Harvestable(loss)
                           THEN [tracked EXCEPT
                                   !.Opportunities =
                                      Append(@, createHarvestOpportunity(holding, loss, holdings)),
                                   !.HarvestableAmount = @ + loss]
                           ELSE tracked
                    ELSE summary

\* what sort.Slice may leave for the comparison of tax.go:123-125: the same
\* opportunities, none before one with a greater loss; sort.Slice is not
\* stable, equal losses come in any order
SortedByLoss(opps) ==
  LET n == Len(opps)
      orders == { f \in [1..n -> 1..n] : \A i, j \in 1..n : i # j => f[i] # f[j] }
  IN  { [i \in 1..n |-> opps[f[i]]] : f \in
          { g \in orders :
              \A i, j \in 1..n :
                i < j => ~(opps[g[j]].UnrealizedLoss > opps[g[i]].UnrealizedLoss) } }

generateRecommendations(summary, month) ==
  LET harvest == IF summary.HarvestableAmount > HarvestableNotice
                   THEN << [kind |-> "harvestable", Ticker |-> "",
                            figure |-> summary.HarvestableAmount] >>
                   ELSE << >>
      offset  == IF summary.TotalUnrealizedGains > 0 /\ summary.TotalUnrealizedLosses > 0
                   THEN << [kind |-> "pair", Ticker |-> "", figure |-> 0] >> ELSE << >>
      top     == IF Len(summary.Opportunities) > 0
                    /\ summary.Opportunities[1].LossPercent > 30 * 100
                   THEN << [kind |-> "concentrated",
                            Ticker |-> summary.Opportunities[1].Ticker,
                            figure |-> RoundDiv(summary.Opportunities[1].LossPercent, 10)] >>
                   ELSE << >>
      yearEnd == IF month >= 10
                   THEN << [kind |-> "year-end", Ticker |-> "", figure |-> 0] >> ELSE << >>
      recs    == harvest \o offset \o top \o yearEnd
                   \o << [kind |-> "annual limit", Ticker |-> "", figure |-> 0] >>
  IN  IF Len(recs) = 0
        THEN << [kind |-> "none identified", Ticker |-> "", figure |-> 0] >>
        ELSE recs

\* the summaries a call may return
AnalyzeTaxOpportunities(portfolio, month) ==
  IF portfolio.nil \/ Len(portfolio.Holdings) = 0
    THEN { NewSummary }
    ELSE LET looped == Analyzed(portfolio.Holdings, Len(portfolio.Holdings))
             netted == [looped EXCEPT
                          !.NetUnrealized = looped.TotalUnrealizedGains
                                              - looped.TotalUnrealizedLosses,
                          !.EstimatedTaxSavings = 24 * looped.ShortTermLosses
                                                    + 15 * looped.LongTermLosses]
         IN  { [sorted EXCEPT !.Recommendations = generateRecommendations(sorted, month)] :
                 sorted \in { [netted EXCEPT !.Opportunities = opps] :
                                opps \in SortedByLoss(netted.Opportunities) } }

InitTax ==
  /\ tax \in { [NoTax EXCEPT !.portfolio = portfolio, !.month = month] :
                 portfolio \in TaxPortfolios, month \in TaxMonths }
  /\ clsText = <<>>
  /\ clsIntent = "none"
  /\ clsModel = "none"
  /\ auditOp = NoAuditOp
  /\ readers = NoReaders
  /\ now = 0
  /\ cache = EmptyMap
  /\ heap = EmptyMap
  /\ arrays = EmptyMap
  /\ held = {}
  /\ opCount = 0
  /\ lastOp = NoOp
  /\ IdleService

\* summary := optimizer.AnalyzeTaxOpportunities(tax.portfolio)
Analyze ==
  /\ ~tax.called
  /\ \E summary \in AnalyzeTaxOpportunities(tax.portfolio, tax.month) :
       tax' = [tax EXCEPT !.called = TRUE, !.returned = << summary >>]
  /\ UNCHANGED <<clsVars, cacheVars, svcVars, auditOp, readers>>

NextTax == Analyze

SpecTax == InitTax /\ [][NextTax]_vars

(***************************************************************************)
(* Claims about the classifier (checked under SpecClassify).               *)
(***************************************************************************)
\* the pattern occurs in the text, letter case disregarded
OccursAnyCase(text, pat) ==
  \E i \in 0..(Len(text) - Len(pat)) :
    \A j \in 1..Len(pat) : LowerChar(text[i + j]) = LowerChar(pat[j])

HasAnyCase(text, patterns) ==
  \E k \in 1..Len(patterns) : OccursAnyCase(text, patterns[k])

\* the keyword groups in their priority order
GroupOrder ==
  << [intent |-> IntentTax,        keywords |-> TaxKeywords],
     [intent |-> IntentRisk,       keywords |-> RiskKeywords],
     [intent |-> IntentProjection, keywords |-> ProjectionKeywords],
     [intent |-> IntentResearch,   keywords |-> ResearchKeywords],
     [intent |-> IntentComparison, keywords |-> ComparisonKeywords],
     [intent |-> IntentAnalytical, keywords |-> AnalyticalKeywords],
     [intent |-> IntentSimple,     keywords |-> SimpleKeywords] >>

\* the intent of the first group with a keyword in the text, Analytical
\* when there is none
FirstGroupIntent(text) ==
  LET hits == { g \in 1..Len(GroupOrder) : HasAnyCase(text, GroupOrder[g].keywords) }
  IN  IF hits = {} THEN IntentAnalytical
      ELSE GroupOrder[CHOOSE g \in hits : \A o \in hits : g <= o].intent

\* C3: a text that contains a blocklist phrase, in any letter case, is
\* classified Unsupported whatever group keywords it also contains.
C3_BlocklistWins ==
  (clsIntent # "none" /\ HasAnyCase(clsText, blockedPatterns))
     => clsIntent = IntentUnsupported

\* C3 witness: a classified text with a blocklist phrase written in upper
\* case next to a tax keyword
C3_Witness ==
  /\ clsIntent = IntentUnsupported
  /\ ~Contains(clsText, <<"g","u","a","r","a","n","t","e","e","d">>)
  /\ OccursAnyCase(clsText, <<"g","u","a","r","a","n","t","e","e","d">>)
  /\ HasAnyCase(clsText, TaxKeywords)

\* C4: a text without a blocklist phrase is classified as the first group,
\* in the order Tax, Risk, Projection, Research, Comparison, Analytical,
\* Simple, that has a keyword in the text (letter case disregarded, as the
\* classifier works on the lower-cased text), and Analytical when no group
\* has one; so a text with a tax and a risk keyword is classified Tax.
C4_PriorityOrder ==
  (clsIntent # "none" /\ ~HasAnyCase(clsText, blockedPatterns))
     => /\ clsIntent = FirstGroupIntent(clsText)
        /\ (HasAnyCase(clsText, TaxKeywords) /\ HasAnyCase(clsText, RiskKeywords))
              => clsIntent = IntentTax

\* C4 witness: a classified text with a tax keyword and a risk keyword and
\* no blocklist phrase
C4_Witness ==
  /\ clsIntent = IntentTax
  /\ HasAnyCase(clsText, TaxKeywords)
  /\ HasAnyCase(clsText, RiskKeywords)
  /\ ~HasAnyCase(clsText, blockedPatterns)

(***************************************************************************)
(* Claims about the cache (checked under SpecCache).                       *)
(***************************************************************************)
\* what Get would hand out for each stored entry: the content of its response
Served == [k \in DOMAIN cache |-> Content(heap, arrays, cache[k].Response)]

\* a Get that directly follows Set(q, p, r) for the same q and p returns a
\* response equal in content to r, a different object, with backing arrays
\* of its own
RoundTripClone ==
  (lastOp.op = "get" /\ lastOp.setRef # 0) =>
     /\ lastOp.ref # 0
     /\ lastOp.ref # lastOp.setRef
     /\ Content(heap, arrays, lastOp.ref) = Content(heap, arrays, lastOp.setRef)
     /\ heap[lastOp.ref].Sources # heap[lastOp.setRef].Sources
     /\ heap[lastOp.ref].Disclaimers # heap[lastOp.setRef].Disclaimers

\* a step in which the caller writes to a response it received from Get
\* (and has not itself handed to Set)
WriteToReturned == lastOp'.op = "mutate" /\ lastOp'.from = "get"

\* C9: Set(q, p, r) followed immediately by Get(q, p) returns a response
\* equal in content to r but a distinct object whose Sources and Disclaimers
\* are independent copies, and a write to any field or container element of
\* a response returned by Get leaves what every entry serves unchanged.
C9_CacheRoundTrip ==
  /\ []RoundTripClone
  /\ [][WriteToReturned => Served' = Served]_vars

\* C9 witness: the caller has just written to a clone it got from Get while
\* the entry the clone was made from is still stored, and the two now differ
C9_Witness ==
  /\ lastOp.op = "mutate"
  /\ lastOp.from = "get"
  /\ \E k \in DOMAIN cache :
        /\ heap[cache[k].Response].ID = heap[lastOp.ref].ID
        /\ Content(heap, arrays, cache[k].Response) # Content(heap, arrays, lastOp.ref)

\* C10: a Get(q, p2) that returns a response was served from an entry that
\* Set stored under portfolio p2 itself, on the exact-match path and on the
\* approximate-match path alike.
C10_CacheIsolation ==
  (lastOp.op = "get" /\ lastOp.ref # 0) => lastOp.srcPid = lastOp.pid

\* C10 witness: Get(q, p2) returned nothing although an unexpired entry for
\* the same normalized query is stored under another portfolio
C10_Witness ==
  /\ lastOp.op = "get"
  /\ lastOp.ref = 0
  /\ \E k \in DOMAIN cache :
        /\ cache[k].PortfolioID # lastOp.pid
        /\ cache[k].Query = NormOf[lastOp.q]
        /\ Unexpired(cache[k])


(***************************************************************************)
(* Claims about the cache: expiry, invalidation, capacity.                 *)
(***************************************************************************)
\* the step is a call of the cache by the caller
CacheCall(op) == opCount' = opCount + 1 /\ lastOp'.op = op

Age(entry) == now - entry.CreatedAt

\* a Get that returned a response was served by an entry younger than the TTL
ServedUnexpired ==
  (lastOp.op = "get" /\ lastOp.ref # 0) =>
     /\ lastOp.key \in DOMAIN cache
     /\ Age(cache[lastOp.key]) < ttl

\* a Get for the query and portfolio of a stored entry younger than the TTL
\* returns a copy of the response of that entry
OwnQueryServed ==
  CacheCall("get") =>
    LET hash == HashOf[lastOp'.q, lastOp'.pid]
    IN  (hash \in DOMAIN cache /\ Age(cache[hash]) < ttl) =>
          /\ lastOp'.ref # 0
          /\ lastOp'.key = hash
          /\ Content(heap', arrays', lastOp'.ref) =
               Content(heap, arrays, cache[hash].Response)

\* neither the sweep nor the passing of time nor a Get removes an entry
\* younger than the TTL
YoungEntriesStay ==
  (lastOp'.op \in {"cleanup", "tick", "get", "mutate"}) =>
    \A k \in DOMAIN cache : Age(cache[k]) < ttl => k \in DOMAIN cache'

\* C11: Get never returns the response of an entry whose age is at or beyond
\* the TTL, on the exact or the approximate path, swept or not; an entry that
\* is still stored (not overwritten, invalidated or evicted) is returned by
\* Get for its own query at every time before the TTL elapses.
C11_CacheTTL ==
  /\ []ServedUnexpired
  /\ [][OwnQueryServed /\ YoungEntriesStay]_vars

\* C11 witness: Get returned nothing for the query of an entry that is still
\* stored, not yet swept, and has reached the TTL
C11_Witness ==
  /\ lastOp.op = "get"
  /\ lastOp.ref = 0
  /\ HashOf[lastOp.q, lastOp.pid] \in DOMAIN cache
  /\ Age(cache[HashOf[lastOp.q, lastOp.pid]]) >= ttl


\* what Get(q, p) would return from table c: the contents of the responses
\* of the entries that may serve it
Answers(c, q, pid) ==
  { Content(heap, arrays, c[k].Response) : k \in GetHits(c, q, pid) }

\* C12: Invalidate(p) removes every entry whose portfolio id is p and no
\* other entry: afterwards Get(q, p) returns nothing for every q, and Get
\* for any other portfolio returns what it returned before.
C12_InvalidateExact ==
  [][CacheCall("invalidate") =>
       LET p == lastOp'.pid
       IN  /\ DOMAIN cache' = { k \in DOMAIN cache : cache[k].PortfolioID # p }
           /\ \A k \in DOMAIN cache' : cache'[k] = cache[k]
           /\ \A q \in CacheQueries : GetHits(cache', q, p) = {}
           /\ \A q \in CacheQueries, o \in PortfolioIDs \ {p} :
                /\ GetHits(cache', q, o) = GetHits(cache, q, o)
                /\ Answers(cache', q, o) = Answers(cache, q, o)]_vars

\* C12 witness: Invalidate(p) has removed an entry while an unexpired entry
\* of another portfolio is stored
C12_Witness ==
  /\ lastOp.op = "invalidate"
  /\ lastOp.removed # {}
  /\ \E k \in DOMAIN cache :
       cache[k].PortfolioID # lastOp.pid /\ Age(cache[k]) < ttl

\* C13: after any sequence of Set, Get, Invalidate and sweep operations (each
\* runs under the cache's lock, so concurrent calls take effect one after
\* another) the cache holds at most maxEntries entries.
C13_SizeBound == Cardinality(DOMAIN cache) <= maxEntries

\* C13 witness: a Set on a full cache has evicted and the cache is full again
C13_Witness ==
  /\ lastOp.op = "set"
  /\ lastOp.removed # {}
  /\ Cardinality(DOMAIN cache) = maxEntries

\* the step is Set(q, p, r) of an entry whose key is not stored, on a table
\* that holds maxEntries entries: inserting would exceed maxEntries
WouldExceed ==
  /\ HashOf[lastOp'.q, lastOp'.pid] \notin DOMAIN cache
  /\ Cardinality(DOMAIN cache) >= maxEntries

\* C14: Set evicts only when inserting the entry would make the cache exceed
\* maxEntries, and then removes, before inserting, exactly the
\* max(1, maxEntries/10) entries with the oldest creation timestamps; a Set
\* below capacity, or a Set that overwrites the entry of an existing key,
\* removes no other entry.
C14_EvictOnlyOnOverflow ==
  [][CacheCall("set") =>
       LET hash == HashOf[lastOp'.q, lastOp'.pid]
           gone == (DOMAIN cache) \ (DOMAIN cache')
           n == IF maxEntries \div 10 > 1 THEN maxEntries \div 10 ELSE 1
       IN  /\ hash \in DOMAIN cache'
           /\ \A k \in (DOMAIN cache') \ {hash} : k \in DOMAIN cache /\ cache'[k] = cache[k]
           /\ IF WouldExceed
                THEN /\ Cardinality(gone) = n
                     /\ \A e \in gone, k \in (DOMAIN cache) \ gone :
                          cache[e].CreatedAt <= cache[k].CreatedAt
                ELSE gone = {}]_vars

(***************************************************************************)
(* Claims about Service.Ask.                                               *)
(***************************************************************************)
Events(p) == Range(ask[p].trace)

\* the position of event e in the trace of p, 0 when it did not happen
Pos(p, e) ==
  IF e \in Events(p)
    THEN CHOOSE i \in 1..Len(ask[p].trace) : ask[p].trace[i] = e
    ELSE 0

\* p's Ask has returned a Response / an error
ReturnedResponse(p) == ask[p].pc = "done" /\ ask[p].resp # 0
ReturnedError(p) == ask[p].pc = "done" /\ ask[p].resp = 0

\* the entries of the audit log for the query of p
EntriesFor(p) == { i \in 1..Len(entries) : entries[i].QueryID = ask[p].qid }

\* the step is the limit check of a new Ask of p
LimitCheck(p) == ask'[p].qid # ask[p].qid

\* C1: with audit logging enabled, every Ask that returns a Response (fresh,
\* cached or the refusal) has appended exactly one AuditEntry for it by the
\* time it returns, and an Ask that returns an error has appended none.
C1_AuditedExactlyOnce ==
  cfg.EnableAuditLog =>
    \A p \in Procs :
      /\ ReturnedResponse(p) =>
           /\ Cardinality(EntriesFor(p)) = 1
           /\ \A i \in EntriesFor(p) : entries[i].ResponseID = heap[ask[p].resp].ID
      /\ ReturnedError(p) => EntriesFor(p) = {}

\* C2: an Ask whose query classifies as Unsupported (user under budget) does
\* nothing but the limit check and the classification: no cache lookup or
\* store, no remote call, no usage recording; it returns the fixed refusal
\* with zero token usage.  The cache never holds a response of intent
\* Unsupported or the refusal text, and no other query is answered with the
\* refusal.
BlockedQuery(p) ==
  ask[p].pc # "idle" /\ IntentOf[ask[p].text] = IntentUnsupported

IsRefusal(r) ==
  /\ heap[r].Text = RefusalText
  /\ heap[r].Intent = IntentUnsupported
  /\ heap[r].TokensUsed = ZeroUsage
  /\ heap[r].Cached = FALSE

BlockedBypasses ==
  /\ \A p \in Procs :
       BlockedQuery(p) /\ ask[p].err # QuotaError =>
         /\ ask[p].pc \in {"route", "done"}
         /\ Events(p) \subseteq {"limit", "classify"}
         /\ ask[p].pc = "done" => ReturnedResponse(p) /\ IsRefusal(ask[p].resp)
  /\ \A k \in DOMAIN cache :
       /\ heap[cache[k].Response].Intent # IntentUnsupported
       /\ heap[cache[k].Response].Text # RefusalText
  /\ \A p \in Procs :
       ReturnedResponse(p) /\ ~BlockedQuery(p) => heap[ask[p].resp].Text # RefusalText

BlockedStepTouchesNothing ==
  \A p \in Procs :
    BlockedQuery(p) /\ ask[p].pc = "route" /\ ask'[p] # ask[p] =>
      cache' = cache /\ dailyTokens' = dailyTokens /\ freshAt' = freshAt

C2_BlockedBypassesCache ==
  /\ []BlockedBypasses
  /\ [][BlockedStepTouchesNothing]_vars

C2_Witness ==
  \E p \in Procs :
    /\ BlockedQuery(p) /\ ReturnedResponse(p) /\ IsRefusal(ask[p].resp)
    /\ cfg.CacheEnabled /\ cache # EmptyMap

\* C5: a limit check for user u made within the window reports exceeded
\* exactly when the usage recorded for u is at least DailyTokenBudget,
\* whatever the other users have used, and changes nothing; the first limit
\* check made after more than the window since the last reset clears the
\* whole table and does not report exceeded; the table changes otherwise
\* only when usage is recorded, and then only the entry of that user, by
\* the total of the response.
CheckStepLimiter(p) ==
  LimitCheck(p) =>
    LET u == ask'[p].user
        exceeded == ask'[p].err = QuotaError
    IN  IF now - lastReset > ResetWindow
          THEN /\ dailyTokens' = [v \in Users |-> 0]
               /\ lastReset' = now
               /\ ~exceeded
          ELSE /\ dailyTokens' = dailyTokens
               /\ lastReset' = lastReset
               /\ exceeded <=> dailyTokens[u] >= DailyTokenBudget

RecordStep(p) == ask[p].pc = "track" /\ ask'[p].pc # "track"

RecordStepLimiter(p) ==
  RecordStep(p) =>
    dailyTokens' = [dailyTokens EXCEPT ![ask[p].user] = @ + ask[p].usage.Total]

C5_UsageLimiter ==
  [][/\ \A p \in Procs : CheckStepLimiter(p) /\ RecordStepLimiter(p)
     /\ dailyTokens' # dailyTokens =>
          \E p \in Procs : LimitCheck(p) \/ RecordStep(p)]_vars

\* a user who had used the budget passes the limit check that resets the table
C5_Witness ==
  \E p \in Procs, i \in 1..Len(entries) :
    /\ entries[i].UserID = ask[p].user
    /\ entries[i].TokensUsed.Total >= DailyTokenBudget
    /\ entries[i].QueryID < ask[p].qid
    /\ lastReset = ask[p].start /\ lastReset > 0
    /\ ask[p].pc = "route"
    /\ dailyTokens = [v \in Users |-> 0]

\* C6: when the user's total in the current window is at or above the
\* budget at the limit check of an Ask, the Ask returns the quota error,
\* which differs from every error of the remote call, without a remote call
\* and with the usage table, the cache and the audit log as they were.
QuotaStep(p) ==
  LimitCheck(p) /\ ~(now - lastReset > ResetWindow)
    /\ dailyTokens[ask'[p].user] >= DailyTokenBudget =>
      /\ ask'[p].pc = "done"
      /\ ask'[p].err = QuotaError
      /\ ask'[p].resp = 0
      /\ "remote" \notin Range(ask'[p].trace)
      /\ dailyTokens' = dailyTokens
      /\ cache' = cache
      /\ entries' = entries

QuotaErrorDistinct ==
  \A p \in Procs :
    /\ ask[p].err = QuotaError => ask[p].trace = <<"limit">>
    /\ ask[p].err # NoError /\ "remote" \in Events(p) => ask[p].err # QuotaError

C6_QuotaExceeded ==
  /\ []QuotaErrorDistinct
  /\ [][\A p \in Procs : QuotaStep(p)]_vars

\* an Ask refused for the quota while the cache and the log hold the
\* answer that used the budget
C6_Witness ==
  \E p \in Procs :
    /\ ReturnedError(p) /\ ask[p].err = QuotaError
    /\ dailyTokens[ask[p].user] >= DailyTokenBudget
    /\ cache # EmptyMap /\ entries # <<>>

\* C7: in every Ask the limit check and, with the cache on, the cache lookup
\* come before the remote call is issued; usage recording, the cache store
\* and the audit write of a fresh answer come only after the remote call has
\* completed.
Before(p, e, f) == Pos(p, e) > 0 /\ Pos(p, e) < Pos(p, f)

C7_AskOrdering ==
  \A p \in Procs :
    /\ "remote" \in Events(p) =>
         /\ Before(p, "limit", "remote")
         /\ cfg.CacheEnabled => Before(p, "cacheGet", "remote")
    /\ \A e \in {"usage", "cacheSet", "audit"} :
         e \in Events(p) =>
           /\ Before(p, "remote", "remoteDone")
           /\ Before(p, "remoteDone", e)
    /\ ask[p].pc \in {"store", "audit"} => "usage" \in Events(p)
    /\ ReturnedResponse(p) /\ ~heap[ask[p].resp].Cached /\ ~BlockedQuery(p) =>
         "remoteDone" \in Events(p)

C7_Witness ==
  \E p \in Procs :
    ask[p].trace = <<"limit", "classify", "cacheGet", "remote", "remoteDone",
                     "usage", "cacheSet", "audit">>

\* what the second Ask of the claim does: it is served from the cache
ServedFromCache(p) ==
  /\ ReturnedResponse(p)
  /\ heap[ask[p].resp].Cached
  /\ "remote" \notin Events(p)
  /\ "usage" \notin Events(p)

PastLookup(p) == ask[p].pc \notin {"idle", "route"} /\ ask[p].err # QuotaError

\* the step in which p's Ask is answered by the cache
HitStep(p) == ask[p].pc = "route" /\ ask'[p].pc = "done" /\ ~BlockedQuery(p)

\* C8 as stated: with the cache on, an Ask (user under budget) for a text and
\* portfolio for which an Ask that had already returned a Response started
\* less than the TTL ago, with no entry of that key invalidated or evicted
\* since, returns a response with Cached = true, without a remote call or
\* usage recording.
C8_AsStated ==
  \A p \in Procs :
    cfg.CacheEnabled /\ PastLookup(p) /\ ask[p].sawOK => ServedFromCache(p)

\* C8, amended: with the cache on, an Ask (user under budget) for a text and
\* portfolio for which an earlier Ask stored a fresh answer of the model
\* less than the TTL ago, with no invalidation or eviction of that entry
\* since, returns a response with Cached = true, without a remote call, and
\* the step that answers it leaves every user's recorded total as it was.
SecondIsServed ==
  \A p \in Procs :
    cfg.CacheEnabled /\ PastLookup(p) /\ ask[p].sawFresh => ServedFromCache(p)

C8_SecondAskCached ==
  /\ []SecondIsServed
  /\ [][\A p \in Procs : HitStep(p) => dailyTokens' = dailyTokens]_vars

C8_Witness ==
  \E p \in Procs :
    ask[p].sawFresh /\ ServedFromCache(p) /\ dailyTokens[ask[p].user] > 0

\* the rounds of the retry loop p's Ask has made
Attempts(p) ==
  IF ask[p].pc = "call" \/ ask[p].last = "" THEN ask[p].attempt
  ELSE ask[p].attempt + 1

\* at most 1 + MaxRetries rounds; another round follows only a transport
\* error or a 5xx response; a 4xx response and a 200 response without usable
\* content end the Ask with an error
RetryDiscipline ==
  \A p \in Procs :
    /\ Attempts(p) <= 1 + MaxRetries
    /\ ask[p].pc = "call" => ask[p].attempt <= MaxRetries
    /\ ask[p].pc = "call" /\ ask[p].attempt > 0 => ask[p].last \in {"transport", "5xx"}
    /\ ask[p].last \in {"4xx", "malformed"} =>
         /\ ReturnedError(p)
         /\ ask[p].err = UpstreamError(InnerError(ask[p].last))
    /\ ask[p].last \in {"transport", "5xx"} /\ ask[p].pc # "call" =>
         /\ ReturnedError(p)
         /\ ask[p].attempt = MaxRetries

\* C15: the remote call is attempted at most 1 + MaxRetries times per Ask
\* and always terminates; a further attempt is made only after a transport
\* error or a 5xx response, never after a 4xx response and never after a 200
\* response whose content is empty or unparsable, which is a terminal error.
C15_BoundedRetries ==
  /\ []RetryDiscipline
  /\ \A p \in {Caller} : (ask[p].pc = "call") ~> (ask[p].pc # "call")

\* C15 witness: an Ask has failed after 1 + MaxRetries attempts
C15_Witness ==
  \E p \in Procs :
    /\ ReturnedError(p)
    /\ ask[p].last \in {"transport", "5xx"}
    /\ Attempts(p) = 1 + MaxRetries

\* p's remote call has failed: the last round did not give a usable answer
\* and no further round follows
CallFailed(p) == ask[p].last \notin {"", "ok"} /\ ask[p].pc # "call"

\* the response p's Ask would have stored or logged
TouchedBy(p) ==
  \/ \E k \in DOMAIN cache : heap[cache[k].Response].QueryID = ask[p].qid
  \/ EntriesFor(p) # {}

FailureLeavesNoTrace ==
  \A p \in Procs :
    CallFailed(p) =>
      /\ ReturnedError(p)
      /\ ask[p].err = UpstreamError(InnerError(ask[p].last))
      /\ Events(p) \cap {"remoteDone", "usage", "cacheSet", "audit"} = {}
      /\ ~TouchedBy(p)

\* a step of p's Ask between its limit check and the return of the error:
\* the cache lookup that misses, a round of the retry loop that fails
StepTowardsFailure(p) ==
  /\ ask[p].pc \in {"route", "call"}
  /\ ask'[p] # ask[p]
  /\ ask'[p].pc \in {"call", "done"}
  /\ ask'[p].resp = 0

Consistent(usage) == usage.Total = usage.Input + usage.Output

AuditCall(op) == auditOp' # auditOp /\ auditOp'.op = op

\* the positions of the user's entries that are later than since
Matching(log, userID, since) ==
  { i \in 1..Len(log) : log[i].UserID = userID /\ log[i].Timestamp > since }

\* the j-th position of M counted from the end of the log
NthNewest(M, j) == CHOOSE i \in M : Cardinality({ k \in M : k > i }) = j - 1

Smaller(a, b) == IF a <= b THEN a ELSE b

\* what the Disclaimers of the entries hold
DisclaimersOf(arr, log) == [i \in 1..Len(log) |-> Elems(arr, log[i].Disclaimers)]

LogUntouched ==
  /\ entries' = entries
  /\ DisclaimersOf(arrays', entries') = DisclaimersOf(arrays, entries)

\* C18: GetEntries(userID, since, limit), for a limit of zero or more,
\* returns only entries of that user whose timestamp is later than since,
\* newest first (the reverse of the order in which they were appended):
\* exactly the min(limit, number of matching entries) newest matching
\* entries; and it leaves the log as it was.
C18_GetEntries ==
  [][AuditCall("entries") =>
       LET call == auditOp'
           M == Matching(entries, call.userID, call.since)
       IN  /\ \A j \in 1..Len(call.results) :
                /\ call.results[j].UserID = call.userID
                /\ call.results[j].Timestamp > call.since
           /\ Len(call.results) = Smaller(call.limit, Cardinality(M))
           /\ \A j \in 1..Len(call.results) :
                call.results[j] = entries[NthNewest(M, j)]
           /\ LogUntouched]_vars

\* C18 witness: GetEntries returned limit entries, fewer than the user's
\* matching ones, from a log that also holds an entry of the user stamped
\* exactly since and an entry of another user
C18_Witness ==
  /\ auditOp.op = "entries"
  /\ auditOp.limit > 0
  /\ Len(auditOp.results) = auditOp.limit
  /\ Cardinality(Matching(entries, auditOp.userID, auditOp.since)) > auditOp.limit
  /\ \E i \in 1..Len(entries) :
       entries[i].UserID = auditOp.userID /\ entries[i].Timestamp = auditOp.since

\* the entries of log stamped earlier than before
Older(log, before) == { i \in 1..Len(log) : log[i].Timestamp < before }

\* log with the entries at the positions of gone taken out, the others left
\* in their order
Surviving(log, gone) ==
  LET kept == { i \in 1..Len(log) : i \notin gone }
      at(j) == CHOOSE i \in kept : Cardinality({ k \in kept : k < i }) = j - 1
  IN  [j \in 1..Cardinality(kept) |-> log[at(j)]]

AppendsAtMostOne ==
  \/ LogUntouched
  \/ /\ Len(entries') = Len(entries) + 1
     /\ SubSeq(entries', 1, Len(entries)) = entries
     /\ SubSeq(DisclaimersOf(arrays', entries'), 1, Len(entries))
          = DisclaimersOf(arrays, entries)

ClearsOlder ==
  LET gone == Older(entries, auditOp'.before)
  IN  /\ entries' = Surviving(entries, gone)
      /\ DisclaimersOf(arrays', entries')
           = Surviving(DisclaimersOf(arrays, entries), gone)
      /\ auditOp'.removed = Cardinality(gone)

\* C19: the audit log is append-only.  Across Log, GetEntries, GetStats,
\* ExportForCompliance and Clear an entry of the log is never modified and
\* the surviving entries keep their relative order; Log only appends at the
\* end; entries leave the log only by Clear(before), which removes all and
\* only the entries stamped earlier than before and returns their count.
C19_AppendOnly ==
  [][/\ AuditCall("log") => AppendsAtMostOne
     /\ AuditCall("clear") => ClearsOlder
     /\ ~(AuditCall("log") \/ AuditCall("clear")) => LogUntouched]_vars

\* C19 witness: Clear has removed an entry that was appended after the first
\* one, which it kept, as it kept an entry stamped exactly before
C19_Witness ==
  /\ auditOp.op = "clear"
  /\ auditOp.removed > 0
  /\ Len(entries) > 1
  /\ entries[1].ID = 1
  /\ \E i \in 1..Len(entries) : entries[i].Timestamp = auditOp.before

RECURSIVE TokensOf(_, _)
TokensOf(log, W) ==
  IF W = {} THEN 0
  ELSE LET i == CHOOSE k \in W : TRUE
       IN  log[i].TokensUsed.Total + TokensOf(log, W \ {i})

RECURSIVE CountsTotal(_)
CountsTotal(counts) ==
  IF DOMAIN counts = {} THEN 0
  ELSE LET key == CHOOSE k \in DOMAIN counts : TRUE
       IN  counts[key] + CountsTotal([k \in DOMAIN counts \ {key} |-> counts[k]])

\* the numbers GetStats reported are the ones of the entries at positions W
StatsAreOver(stats, log, W) ==
  /\ stats.total_queries = Cardinality(W)
  /\ stats.cached_queries = Cardinality({ i \in W : log[i].Cached })
  /\ stats.cached_queries <= stats.total_queries
  /\ stats.total_tokens = TokensOf(log, W)
  /\ CountsTotal(stats.by_intent) = stats.total_queries
  /\ CountsTotal(stats.by_model) = stats.total_queries
  /\ \A intent \in DOMAIN stats.by_intent :
       stats.by_intent[intent] = Cardinality({ i \in W : log[i].QueryIntent = intent })
  /\ \A model \in DOMAIN stats.by_model :
       stats.by_model[model] = Cardinality({ i \in W : log[i].ResponseModel = model })

\* the entries GetEntries selects for since, over all users and with no limit
SelectedByGetEntries(log, since) ==
  { i \in 1..Len(log) :
      \E u \in Users :
        LET selected == GetEntries(log, u, since, Len(log))
        IN  \E j \in 1..Len(selected) : selected[j] = log[i] }

\* what GetStats does count: the entries that are not stamped before since
GetStatsCountsFromSince ==
  auditOp.op = "stats" =>
    StatsAreOver(auditOp.stats, entries,
                 { i \in 1..Len(entries) : entries[i].Timestamp >= auditOp.since })

\* C20: GetStats(since) reports total_queries equal to the number of log
\* entries in the window, cached_queries equal to the number of those with
\* Cached set (so cached_queries <= total_queries), total_tokens equal to
\* the sum of their TokensUsed.Total, and per-intent and per-model counts
\* that each sum to total_queries; and the window it counts is the set of
\* entries GetEntries selects for the same since.
C20_StatsWindow ==
  auditOp.op = "stats" =>
    StatsAreOver(auditOp.stats, entries, SelectedByGetEntries(entries, auditOp.since))

(***************************************************************************)
(* Claims about the router (checked under SpecRoute and Spec).             *)
(***************************************************************************)
\* the tiers: Fast is the cheapest, Standard the next
FastTier == ModelHaiku
StandardTier == ModelSonnet

\* the default tier of each intent the routing is stated for
StatedTier(intent) ==
  IF intent \in {IntentSimple, IntentComparison} THEN FastTier ELSE StandardTier

StatedIntents ==
  { IntentSimple, IntentComparison, IntentAnalytical, IntentTax, IntentResearch,
    IntentProjection, IntentRisk, IntentCompliance }

IsComplexQuery(query) ==
  Len(query) > 500 \/ Cardinality({ i \in 1..Len(query) : query[i] = "?" }) > 1

RiskCaveat == "Risk assessments are based on historical data and may not reflect future conditions."

\* p's Ask has returned the Response it built from the answer of the model
ReturnedFresh(p) == ReturnedResponse(p) /\ "remoteDone" \in Events(p)

RECURSIVE ServedTotal(_)
ServedTotal(served) ==
  IF DOMAIN served = {} THEN 0
  ELSE LET k == CHOOSE x \in DOMAIN served : TRUE
       IN  served[k] + ServedTotal([x \in DOMAIN served \ {k} |-> served[x]])

\* C23: the increments of the hit counter performed by concurrent Gets are
\* serialized: once the N Gets served by an entry have returned, its hit
\* counter has increased by exactly N, and Stats reports total_hits equal to
\* the number of hits served by the entries currently stored.
C23_HitsCounted ==
  AllIdle =>
    /\ \A k \in DOMAIN cache : cache[k].HitCount = readers.served[k]
    /\ readers.total_hits # -1 => readers.total_hits = ServedTotal(readers.served)

(***************************************************************************)
(* Claims about the background sweep (checked under SpecSweep).            *)
(***************************************************************************)
\* the entry under key k has reached the TTL
Expired(k) == k \in DOMAIN cache /\ now - cache[k].CreatedAt >= ttl

SweepRemovesExpired ==
  (lastOp'.op = "cleanup" /\ lastOp' # lastOp) =>
    /\ DOMAIN cache' = { k \in DOMAIN cache : ~Expired(k) }
    /\ \A k \in DOMAIN cache' : cache'[k] = cache[k]
    /\ lastOp'.removed = { k \in DOMAIN cache : Expired(k) }

\* C24: the background sweep deletes all and only the entries whose age has
\* reached the TTL, never an unexpired one; and, the sweep being scheduled
\* fairly, every expired entry is eventually removed from the cache, also
\* when no Get or Set occurs any more.
C24_SweepRemovesExpired ==
  /\ [][SweepRemovesExpired]_vars
  /\ \A k \in { HashOf[q, pid] : q \in CacheQueries, pid \in PortfolioIDs } :
       Expired(k) ~> ~Expired(k)

\* C24 witness: the callers have made their last call, and the sweep has
\* removed an expired entry and left an unexpired one
C24_Witness ==
  /\ opCount = MaxOps
  /\ lastOp.op = "cleanup"
  /\ lastOp.removed # {}
  /\ \E k \in DOMAIN cache : ~Expired(k)

(***************************************************************************)
(* Claims about the similarity match (checked under SpecSimilar).          *)
(***************************************************************************)
\* 0.7 * Jaccard(keywords(q), entry keywords) + 0.3 * min(lenA, lenB) /
\* max(lenA, lenB) is at or above 0.92, in exact arithmetic
ScoreReaches(q, entry) ==
  LET Q == { KeywordsOf[q][i] : i \in 1..Len(KeywordsOf[q]) }
      E == { entry.Keywords[i] : i \in 1..Len(entry.Keywords) }
      both == Cardinality(Q \cap E)
      all == Cardinality(Q \cup E)
      lenA == Len(NormOf[q])
      lenB == Len(entry.Query)
      shorter == IF lenA < lenB THEN lenA ELSE lenB
      longer == IF lenA < lenB THEN lenB ELSE lenA
  IN  /\ all > 0 /\ longer > 0
      /\ 100 * (7 * both * longer + 3 * shorter * all) >= 92 * 10 * all * longer

Candidate(q, pid, k) ==
  /\ cache[k].PortfolioID = pid
  /\ Age(cache[k]) < ttl
  /\ ScoreReaches(q, cache[k])

\* C25: when there is no unexpired exact match, Get(q, p) returns a response
\* only from an unexpired entry of portfolio p whose score is at or above
\* the threshold, and returns absent when no entry reaches the threshold; an
\* entry scoring below the threshold is never served.
C25_SimilarityMatch ==
  [][CacheCall("get") =>
       LET q == lastOp'.q
           pid == lastOp'.pid
           hash == HashOf[q, pid]
       IN  ~(hash \in DOMAIN cache /\ Age(cache[hash]) < ttl) =>
             /\ lastOp'.ref # 0 =>
                  /\ lastOp'.key \in DOMAIN cache
                  /\ Candidate(q, pid, lastOp'.key)
             /\ (\A k \in DOMAIN cache : ~Candidate(q, pid, k)) => lastOp'.ref = 0]_vars

\* C25 witness: a Get with no entry of its own was served by a similar entry
\* of its portfolio while another unexpired entry of that portfolio, with
\* the same keywords, scored below the threshold
C25_Witness ==
  /\ lastOp.op = "get"
  /\ lastOp.ref # 0
  /\ lastOp.key # HashOf[lastOp.q, lastOp.pid]
  /\ HashOf[lastOp.q, lastOp.pid] \notin DOMAIN cache
  /\ \E k \in DOMAIN cache :
       /\ cache[k].PortfolioID = lastOp.pid
       /\ Age(cache[k]) < ttl
       /\ ~ScoreReaches(lastOp.q, cache[k])

(***************************************************************************)
(* Claims about normalizeQuery (checked under SpecNormalize).              *)
(***************************************************************************)
NormalChars ==
  { "a","b","c","d","e","f","g","h","i","j","k","l","m","n","o","p","q","r",
    "s","t","u","v","w","x","y","z","0","1","2","3","4","5","6","7","8","9",
    " ", "$", "%" }

NoTwoSpaces(text) ==
  \A i \in 1..(Len(text) - 1) : ~(text[i] = " " /\ text[i + 1] = " ")

\* C26: normalizeQuery returns text that holds only lower-case letters,
\* digits, space, '$' and '%' and has no two consecutive spaces;
\* normalizeQuery is idempotent; and two queries with the same normalized
\* form map, under the same portfolio, to the same cache key.
C26_Normalized ==
  [][clsText' # clsText =>
       /\ \A i \in 1..Len(clsText') : clsText'[i] \in NormalChars
       /\ NoTwoSpaces(clsText')
       /\ normalizeQuery(clsText') = clsText'
       /\ \A other \in NormalizerInputs, pid \in PortfolioIDs :
            normalizeQuery(other) = clsText' =>
              hashQuery(other, pid) = hashQuery(clsText, pid)]_vars


(***************************************************************************)
(* Claims about the TaxOptimizer (checked under SpecTax).                  *)
(***************************************************************************)
\* the places in the holdings list whose cost basis exceeds the market
\* value by the minimum loss threshold or more
Qualifying(holdings) ==
  { i \in 1..Len(holdings) :
      holdings[i].CostBasis - holdings[i].MarketValue >= minLossThreshold }

\* the opportunity was made from the holding
MadeFrom(opp, holding) ==
  /\ opp.Ticker = holding.Ticker
  /\ opp.CurrentValue = holding.MarketValue
  /\ opp.CostBasis = holding.CostBasis

\* C27: AnalyzeTaxOpportunities returns, for every portfolio (nil and empty
\* ones included), a summary that is not nil and has at least one
\* disclaimer; its opportunities are, one for one, the holdings whose cost
\* basis minus market value is at or above the minimum loss threshold, in
\* descending order of loss; a nil or empty portfolio has none.
C27_Opportunities ==
  tax.called =>
    /\ Len(tax.returned) = 1
    /\ LET summary  == tax.returned[1]
           opps     == summary.Opportunities
           holdings == tax.portfolio.Holdings
       IN  /\ Len(summary.Disclaimers) > 0
           /\ \E f \in [1..Len(opps) -> Qualifying(holdings)] :
                /\ \A i, j \in 1..Len(opps) : i # j => f[i] # f[j]
                /\ \A q \in Qualifying(holdings) : \E i \in 1..Len(opps) : f[i] = q
                /\ \A i \in 1..Len(opps) :
                     /\ MadeFrom(opps[i], holdings[f[i]])
                     /\ opps[i].UnrealizedLoss
                          = holdings[f[i]].CostBasis - holdings[f[i]].MarketValue
           /\ \A i, j \in 1..Len(opps) :
                i < j => opps[i].UnrealizedLoss >= opps[j].UnrealizedLoss
           /\ (tax.portfolio.nil \/ Len(holdings) = 0) => Len(opps) = 0

\* a call returned for a portfolio whose first holding has a loss of exactly
\* the threshold, with a holding one dollar short of it and one with a
\* greater loss, which comes first among the opportunities
C27_Witness ==
  /\ tax.called
  /\ Len(tax.portfolio.Holdings) = 3
  /\ GainLoss(tax.portfolio.Holdings[1]) = -minLossThreshold
  /\ \E i \in 2..3 : GainLoss(tax.portfolio.Holdings[i]) = -(minLossThreshold - 1)
  /\ Len(tax.returned[1].Opportunities) = 2
  /\ tax.returned[1].Opportunities[1].UnrealizedLoss > minLossThreshold
  /\ tax.returned[1].Opportunities[2].UnrealizedLoss = minLossThreshold

\* another element of the holdings list has the asset class, sector and
\* geography of the one at place i
OtherAlike(holdings, i) ==
  \E j \in 1..Len(holdings) :
    /\ j # i
    /\ holdings[j].AssetClass = holdings[i].AssetClass
    /\ holdings[j].Sector = holdings[i].Sector
    /\ holdings[j].Geography = holdings[i].Geography

\* C28: a harvest opportunity has WashSaleRisk set if and only if the
\* portfolio holds another element, whatever its ticker, with the asset
\* class, sector and geography of the holding the opportunity was made from.
C28_WashSaleRisk ==
  tax.called =>
    \A k \in 1..Len(tax.returned[1].Opportunities) :
      \A i \in Qualifying(tax.portfolio.Holdings) :
        MadeFrom(tax.returned[1].Opportunities[k], tax.portfolio.Holdings[i])
          => (tax.returned[1].Opportunities[k].WashSaleRisk
                <=> OtherAlike(tax.portfolio.Holdings, i))

(***************************************************************************)
(* Claims about the limiter under concurrent callers (checked under Spec)  *)
(* and about the Response a caller keeps (checked under SpecCaller).       *)
(***************************************************************************)
\* the greatest token total of a single response
SingleResponseTotal ==
  CHOOSE t \in { TokenUsage(u.Input, u.Output).Total : u \in Usages } :
    \A u \in Usages : TokenUsage(u.Input, u.Output).Total <= t

\* C29: however concurrent Ask calls of one user interleave, the user's
\* recorded daily total never exceeds DailyTokenBudget - 1 plus the token
\* total of a single response: the budget is overshot by one request at most.
C29_OvershootBound ==
  \A u \in Users : dailyTokens[u] <= (DailyTokenBudget - 1) + SingleResponseTotal

\* the caller has written to the Response it holds
CallerWrote == ask' = ask /\ cache' = cache /\ (heap' # heap \/ arrays' # arrays)

\* C30: the Response Ask returned for a fresh answer is not aliased with the
\* cache entry: when the caller writes to it (a field, its Sources or its
\* Disclaimers), what the entries that serve the same query and portfolio
\* hold, and so what a later Get or Ask returns for them, does not change.
C30_FreshNotAliased ==
  [][ (CallerWrote /\ ReturnedFresh(Caller))
        => \A k \in GetHits(cache, ask[Caller].text, ask[Caller].pid) :
             Content(heap', arrays', cache[k].Response)
               = Content(heap, arrays, cache[k].Response) ]_vars

=============================================================================
